---- MODULE Spec2Model ----
(***************************************************************************)
(* Attendance skill: the day-status store, the confirmation flow, the     *)
(* user-key resolution, the session registry and the attendance           *)
(* percentages, as implemented in                                         *)
(* src/api/alexa.js (single attendance document per key) and in           *)
(* src/unnamed/part_002 (one document per day, written in a transaction). *)
(***************************************************************************)
EXTENDS Integers, Sequences, FiniteSets, TLC

None == "none"

\* an absent or null date, among dates written <<year, month, day>>
NoDate == <<0, 0, 0>>

\* ------------------------------------------------------------------ bounds
NCalls == 2          \* concurrent setStatusIfEmpty calls
MaxDay == 2          \* calendar days 1..MaxDay (day 1 is a Monday)

\* default maxAttempts of Firestore's runTransaction
MaxClock == 4        \* writes of day documents in one conversation
MaxAttempts == 5

Calls == 1..NCalls
Dates == 1..MaxDay
MarkStatuses == {"present", "absent", "holiday"}
HolidayNames == {"Diwali"}

VARIABLES
  days,        \* part_002: attendance/{uid}/{y}/{y-m}/days/{date} -> document or None
  clock,       \* server timestamps handed out so far
  txpc,        \* per call: "idle", "get", "set", "done"
  txArg,       \* per call: the arguments of setStatusIfEmpty
  txSnap,      \* per call: the snapshot tx.get returned
  txAttempt,   \* per call: the attempt of runTransaction
  txRes,       \* per call: the returned value
  txAlone,     \* per call: no other call was in flight while it ran
  txFound,     \* per call: the day document when the call was made
  txFaulted,   \* per call: the store failed during the call
  rev,         \* the revision of the skill that is deployed: "alexa" or "part_002"
  today,       \* the current calendar day
  db,          \* alexa.js: the credentials documents and the attendance documents
  attrs,       \* the session attributes of the conversation
  sess,        \* "open", or "ending" after a response without reprompt
  turn,        \* the last request handled and its response
  req,         \* alexa.js: the mark requests in flight, each at an await
  svc,         \* the session-registry calls in flight, each at an await
  made,        \* the number of session-registry calls made so far
  book,        \* the percentage functions: the stored data they read, and today
  calc         \* the percentage functions: the last one applied and what it returned

txvars == <<txpc, txArg, txSnap, txAttempt, txRes, txAlone, txFound, txFaulted>>
convvars == <<rev, today, db, attrs, sess, turn, book, calc>>
racevars == <<req, svc, made>>

vars == <<days, clock, txpc, txArg, txSnap, txAttempt, txRes, txAlone, txFound, txFaulted,
          rev, today, db, attrs, sess, turn, req, svc, made, book, calc>>

\* ------------------------------------------------- part_002: day documents
NoArg == [date |-> 0, status |-> None, holidayName |-> None]
NoRes == [ok |-> FALSE, reason |-> None, existing |-> None]

\* { status, ...extra, createdAt: serverTimestamp() }
DayDoc(status, holidayName, at) ==
  [status |-> status, holidayName |-> holidayName, createdAt |-> at]

\* the absent document (snap.exists is false)
NoDoc == [status |-> None, holidayName |-> None, createdAt |-> 0]

\* doc.exists
DocExistsNever(doc) == FALSE
DocExists(doc) == doc # NoDoc

\* the commit of a transaction succeeds only when the document it read is unchanged
TxValidAlways(c) == TRUE
TxValid(c) == days[txArg[c].date] = txSnap[c]

\* setStatusIfEmpty(uid, date, status, extra) is called
SetStatusIfEmptyCall(c) ==
  /\ txpc[c] = "idle"
  /\ \E d \in Dates, s \in MarkStatuses, n \in HolidayNames :
       txArg' = [txArg EXCEPT ![c] =
                   [date |-> d, status |-> s,
                    holidayName |-> IF s = "holiday" THEN n ELSE None]]
       /\ txFound' = [txFound EXCEPT ![c] = days[d]]
  /\ txpc' = [txpc EXCEPT ![c] = "get"]
  /\ txAttempt' = [txAttempt EXCEPT ![c] = 1]
  /\ txAlone' = [x \in Calls |->
                   IF x = c THEN \A y \in Calls \ {c} : txpc[y] \in {"idle", "done"}
                   ELSE txAlone[x] /\ txpc[x] \in {"idle", "done"}]
  /\ UNCHANGED <<days, clock, txSnap, txRes, txFaulted, convvars, racevars>>

\* const doc = await tx.get(ref); if (doc.exists) throw { code: 'already_set', existing }
TxGet(c) ==
  /\ txpc[c] = "get"
  /\ LET doc == days[txArg[c].date] IN
       IF DocExists(doc)
       THEN /\ txRes' = [txRes EXCEPT ![c] =
                           [ok |-> FALSE, reason |-> "already_set", existing |-> doc.status]]
            /\ txpc' = [txpc EXCEPT ![c] = "done"]
            /\ UNCHANGED txSnap
       ELSE /\ txSnap' = [txSnap EXCEPT ![c] = doc]
            /\ txpc' = [txpc EXCEPT ![c] = "set"]
            /\ UNCHANGED txRes
  /\ UNCHANGED <<days, clock, txArg, txAttempt, txAlone, txFound, txFaulted, convvars, racevars>>

\* tx.set(ref, {...}) and the commit: applied when the read is still valid,
\* otherwise the update function runs again (up to MaxAttempts attempts)
TxSet(c) ==
  /\ txpc[c] = "set"
  /\ IF TxValid(c)
     THEN /\ days' = [days EXCEPT ![txArg[c].date] =
                        DayDoc(txArg[c].status, txArg[c].holidayName, clock + 1)]
          /\ clock' = clock + 1
          /\ txRes' = [txRes EXCEPT ![c] = [ok |-> TRUE, reason |-> None, existing |-> None]]
          /\ txpc' = [txpc EXCEPT ![c] = "done"]
          /\ UNCHANGED txAttempt
     ELSE IF txAttempt[c] < MaxAttempts
     THEN /\ txAttempt' = [txAttempt EXCEPT ![c] = @ + 1]
          /\ txpc' = [txpc EXCEPT ![c] = "get"]
          /\ UNCHANGED <<days, clock, txRes>>
     ELSE /\ txRes' = [txRes EXCEPT ![c] = [ok |-> FALSE, reason |-> "unknown", existing |-> None]]
          /\ txpc' = [txpc EXCEPT ![c] = "done"]
          /\ UNCHANGED <<days, clock, txAttempt>>
  /\ UNCHANGED <<txArg, txSnap, txAlone, txFound, txFaulted, convvars, racevars>>

\* the store fails: runTransaction rejects, nothing is written,
\* catch (e) { return { ok: false, reason: 'unknown' } }
TxError(c) ==
  /\ txpc[c] \in {"get", "set"}
  /\ txRes' = [txRes EXCEPT ![c] = [ok |-> FALSE, reason |-> "unknown", existing |-> None]]
  /\ txpc' = [txpc EXCEPT ![c] = "done"]
  /\ txFaulted' = [txFaulted EXCEPT ![c] = TRUE]
  /\ UNCHANGED <<days, clock, txArg, txSnap, txAttempt, txAlone, txFound, convvars, racevars>>

\* ----------------------------- alexa.js: credentials and attendance documents
AlexaId == "amzn1.ask.account.A"
GoogleUid == "g1"
GoogleKey == "k1"
Keys == {AlexaId, GoogleUid, GoogleKey}

NoRecords == [d \in Dates |-> None]

\* a missing attendance document; getUserData returns {} and every reader
\* defaults the missing fields (userData.records || {}, userData.holidays || [])
NoAttDoc ==
  [exists |-> FALSE, records |-> NoRecords, holidays |-> <<>>, notEnrolled |-> <<>>,
   sessions |-> <<>>, weeklyDaysOff |-> {}]

\* { userId, type, createdAt, records: {}, holidays: [], notEnrolled: [], sessions: [] }
NewAttDoc == [NoAttDoc EXCEPT !.exists = TRUE]

NoProfile == [exists |-> FALSE, mappedToGoogle |-> FALSE, googleUid |-> None, key |-> None]

\* the profile document of an unmapped Alexa user: key = alexaUserId
StandaloneProfile ==
  [exists |-> TRUE, mappedToGoogle |-> FALSE, googleUid |-> None, key |-> AlexaId]

\* getOrCreateAlexaUser(alexaUserId)
GetOrCreateAlexaUser(d) ==
  IF d.alexaProfile.exists THEN d
  ELSE [d EXCEPT !.alexaProfile = StandaloneProfile, !.att[AlexaId] = NewAttDoc]

\* findExistingUserMapping(alexaUserId): the mapped googleUid or null
FindExistingUserMapping(d) == d.mapping

\* createAlexaToGoogleMapping(alexaUserId, googleUid, alexaProfile, userKey)
CreateAlexaToGoogleMapping(d, userKey) ==
  [d EXCEPT !.mapping = GoogleUid,
            !.alexaProfile = [exists |-> TRUE, mappedToGoogle |-> TRUE,
                              googleUid |-> GoogleUid, key |-> userKey]]

\* createStandaloneAlexaUser(alexaUserId, alexaProfile): the profile document and
\* attendanceRef.set({... records: {}, holidays: [], ...}) without merge
CreateStandaloneAlexaUser(d) ==
  [d EXCEPT !.alexaProfile = StandaloneProfile, !.att[AlexaId] = NewAttDoc]

\* findOrCreateUserMapping(handlerInput, alexaUserId, accessToken); fetch is the
\* outcome of getAlexaUserProfile: "match" when the profile's email is the Google
\* user's, "other" when it is another email or the fetch failed
FindOrCreateUserMapping(d, fetch) ==
  IF fetch = "match" /\ d.google.exists
  THEN [uid |-> GoogleUid,
        db |-> CreateAlexaToGoogleMapping(
                 d, IF d.google.key # None THEN d.google.key ELSE GoogleUid)]
  ELSE [uid |-> AlexaId, db |-> CreateStandaloneAlexaUser(d)]

\* getUserKey(handlerInput)
GetUserKey(d, token, fetch) ==
  IF ~token THEN [uid |-> AlexaId, db |-> GetOrCreateAlexaUser(d)]
  ELSE IF FindExistingUserMapping(d) # None THEN [uid |-> FindExistingUserMapping(d), db |-> d]
  ELSE FindOrCreateUserMapping(d, fetch)

\* getAttendanceKey(uid)
GetAttendanceKey(d, uid) ==
  IF uid = AlexaId /\ d.alexaProfile.exists
  THEN IF d.alexaProfile.mappedToGoogle /\ d.alexaProfile.googleUid # None
       THEN IF d.google.exists /\ d.google.key # None
            THEN d.google.key ELSE d.alexaProfile.googleUid
       ELSE IF d.alexaProfile.key # None THEN d.alexaProfile.key ELSE uid
  ELSE IF uid = GoogleUid /\ d.google.exists /\ d.google.key # None
       THEN d.google.key ELSE uid

\* migrateUserData(uid)
MigrateUserData(d, uid) ==
  LET key == GetAttendanceKey(d, uid) IN
    IF d.att[uid].exists /\ ~d.att[key].exists
    THEN [d EXCEPT !.att[key] = d.att[uid]] ELSE d

\* getUserData(uid)
GetUserData(d, uid) ==
  LET key == GetAttendanceKey(d, uid) IN
    IF d.att[key].exists THEN d.att[key]
    ELSE IF d.att[uid].exists THEN d.att[uid] ELSE NoAttDoc

\* docRef.set(updates, { merge: true }) on the records map: the keys given are
\* written and the other stored keys stay; an empty map replaces the stored map
MergeRecords(stored, given) ==
  IF given = NoRecords THEN given
  ELSE [d \in Dates |-> IF given[d] # None THEN given[d] ELSE stored[d]]

\* updateUserData(uid, updates): fields names the fields of updates; arrays are
\* replaced as a whole
UpdateUserData(d, uid, updates, fields) ==
  LET key == GetAttendanceKey(d, uid)
      old == d.att[key]
  IN [d EXCEPT !.att[key] =
        [exists |-> TRUE,
         records |-> IF "records" \in fields
                     THEN MergeRecords(old.records, updates.records) ELSE old.records,
         holidays |-> IF "holidays" \in fields THEN updates.holidays ELSE old.holidays,
         notEnrolled |-> IF "notEnrolled" \in fields
                         THEN updates.notEnrolled ELSE old.notEnrolled,
         sessions |-> IF "sessions" \in fields THEN updates.sessions ELSE old.sessions,
         weeklyDaysOff |-> old.weeklyDaysOff]]

NoStatus == [status |-> None, name |-> None]

\* getDayStatus(uid, date), on the user data read
DayStatusOf(userData, date) ==
  IF userData.records[date] # None
  THEN [status |-> IF userData.records[date] = "true" THEN "present" ELSE "absent",
        name |-> None]
  ELSE IF \E i \in 1..Len(userData.holidays) : userData.holidays[i].date = date
  THEN LET i == CHOOSE i \in 1..Len(userData.holidays) :
                  /\ userData.holidays[i].date = date
                  /\ \A j \in 1..(i - 1) : userData.holidays[j].date # date
       IN [status |-> "holiday", name |-> userData.holidays[i].name]
  ELSE IF \E i \in 1..Len(userData.notEnrolled) : userData.notEnrolled[i] = date
  THEN [status |-> "not-enrolled", name |-> None]
  ELSE NoStatus

GetDayStatus(d, uid, date) == DayStatusOf(GetUserData(d, uid), date)

\* holidays.filter(h => h.date !== date)
RECURSIVE FilterHolidays(_, _)
FilterHolidays(hs, date) ==
  IF hs = <<>> THEN <<>>
  ELSE IF Head(hs).date = date THEN FilterHolidays(Tail(hs), date)
  ELSE <<Head(hs)>> \o FilterHolidays(Tail(hs), date)

\* notEnrolled.filter(d => d !== date)
RECURSIVE FilterDates(_, _)
FilterDates(ds, date) ==
  IF ds = <<>> THEN <<>>
  ELSE IF Head(ds) = date THEN FilterDates(Tail(ds), date)
  ELSE <<Head(ds)>> \o FilterDates(Tail(ds), date)

\* setDayStatus(uid, date, status, extraData): the updates computed from the
\* user data read (delete records[date], the two filters, the new entry)
DayStatusUpdates(userData, date, status, holidayName) ==
  LET cleared == [userData.records EXCEPT ![date] = None]
      records == IF status = "present" THEN [cleared EXCEPT ![date] = "true"]
                 ELSE IF status = "absent" THEN [cleared EXCEPT ![date] = "false"]
                 ELSE cleared
      holidays0 == FilterHolidays(userData.holidays, date)
      holidays == IF status = "holiday"
                  THEN Append(holidays0,
                              [date |-> date,
                               name |-> IF holidayName # None THEN holidayName ELSE "Holiday"])
                  ELSE holidays0
      notEnrolled0 == FilterDates(userData.notEnrolled, date)
      notEnrolled == IF status = "not-enrolled" THEN Append(notEnrolled0, date)
                     ELSE notEnrolled0
  IN [records |-> records, holidays |-> holidays, notEnrolled |-> notEnrolled]

\* setDayStatus(uid, date, status, extraData), run without interruption
SetDayStatus(d, uid, date, status, holidayName) ==
  UpdateUserData(d, uid,
                 DayStatusUpdates(GetUserData(d, uid), date, status, holidayName),
                 {"records", "holidays", "notEnrolled"})

\* new Date(dateStr).getDay(): 0 = Sunday; day 1 is a Monday
Weekday(date) == date % 7

\* a decision that knows Sunday only
SundayOnly(date, userData) == Weekday(date) = 0

\* isNonWorkingDay(dateStr, userData)
IsNonWorkingDay(date, userData) ==
  \/ Weekday(date) = 0
  \/ Weekday(date) \in userData.weeklyDaysOff

\* ----------------------------- the conversation: session attributes and turns
NoPending == [date |-> 0, newStatus |-> None, oldStatus |-> None, holidayName |-> None]

\* the session attributes of a new session ({}); part_002 names the pending
\* change pendingChange and stores no oldStatus in it
NoAttrs ==
  [pendingStatusChange |-> NoPending, inSessionCreation |-> FALSE,
   sessionCreationStep |-> None, pendingSessionName |-> None,
   pendingStartDate |-> NoDate, shouldSetAsPreset |-> FALSE]

\* the last request handled: its intent, the response given, the uid the handler
\* resolved, the status it asked for and the existing status it found
NoTurn ==
  [intent |-> None, resp |-> None, uid |-> None, status |-> None, existing |-> None,
   seq |-> 0]

\* responseBuilder.speak(..).getResponse() leaves shouldEndSession unset and the
\* session ends; .reprompt(..) keeps it open
Reply(intent, resp, uid, status, existing, reprompt) ==
  /\ turn' = [intent |-> intent, resp |-> resp, uid |-> uid, status |-> status,
              existing |-> existing, seq |-> 1 - turn.seq]
  /\ sess' = IF reprompt THEN "open" ELSE "ending"

IntentOf(status) ==
  IF status = "present" THEN "MarkPresentIntent"
  ELSE IF status = "absent" THEN "MarkAbsentIntent" ELSE "MarkHolidayIntent"

\* getUserKey, ensureUserCredentials (no writes) and migrateUserData, as every
\* handler of alexa.js runs them first
ResolveUser(d, token, fetch) ==
  LET r == GetUserKey(d, token, fetch)
  IN [uid |-> r.uid, db |-> MigrateUserData(r.db, r.uid)]

\* sessionAttributes.pendingStatusChange = { date, newStatus, oldStatus[, holidayName] }
PendingWithoutOld(date, newStatus, oldStatus, holidayName) ==
  [date |-> date, newStatus |-> newStatus, oldStatus |-> None, holidayName |-> holidayName]
PendingStatusChange(date, newStatus, oldStatus, holidayName) ==
  [date |-> date, newStatus |-> newStatus, oldStatus |-> oldStatus,
   holidayName |-> holidayName]

\* delete sessionAttributes.pendingStatusChange
KeepPending(a) == a
DeletePending(a) == [a EXCEPT !.pendingStatusChange = NoPending]

\* existingStatus.status === 'present' || existingStatus === 'present', and the
\* like for the other statuses
NeverSame(existingStatus, status) == FALSE
SameStatus(existingStatus, status) == existingStatus.status = status

\* ----------------------------- alexa.js: intent handlers
\* LaunchRequestHandler
LaunchRequest(token, fetch) ==
  /\ rev = "alexa" /\ sess = "open"
  /\ IF ~token
     THEN /\ Reply("LaunchRequest", "link", None, None, None, FALSE)
          /\ UNCHANGED db
     ELSE LET p == ResolveUser(db, TRUE, fetch)
          IN /\ db' = p.db
             /\ Reply("LaunchRequest", "welcome", p.uid, None, None, TRUE)
  /\ UNCHANGED <<days, clock, txvars, racevars, rev, book, calc, today, attrs>>

\* MarkPresentIntentHandler (status = "present"), MarkAbsentIntentHandler
\* (status = "absent"); fail: the store rejects the write of setDayStatus
MarkIntent(status, token, fetch, fail) ==
  /\ rev = "alexa" /\ sess = "open"
  /\ IF ~token
     THEN /\ Reply(IntentOf(status), "link", None, status, None, FALSE)
          /\ UNCHANGED <<db, attrs>>
     ELSE LET p == ResolveUser(db, TRUE, fetch)
              userData == GetUserData(p.db, p.uid)
              existingStatus == GetDayStatus(p.db, p.uid, today)
          IN IF IsNonWorkingDay(today, userData)
             THEN /\ db' = p.db
                  /\ UNCHANGED attrs
                  /\ Reply(IntentOf(status), "nonworking", p.uid, status, None, FALSE)
             ELSE IF SameStatus(existingStatus, status)
             THEN /\ db' = p.db
                  /\ UNCHANGED attrs
                  /\ Reply(IntentOf(status), "already", p.uid, status, status, FALSE)
             ELSE IF existingStatus.status # None
             THEN /\ db' = p.db
                  /\ attrs' = [attrs EXCEPT !.pendingStatusChange =
                                 PendingStatusChange(today, status,
                                                     existingStatus.status, None)]
                  /\ Reply(IntentOf(status), "confirm", p.uid, status,
                           existingStatus.status, TRUE)
             ELSE IF fail
             THEN /\ db' = p.db
                  /\ UNCHANGED attrs
                  /\ Reply(IntentOf(status), "error", p.uid, status, None, FALSE)
             ELSE /\ db' = SetDayStatus(p.db, p.uid, today, status, None)
                  /\ UNCHANGED attrs
                  /\ Reply(IntentOf(status), "marked", p.uid, status, None, FALSE)
  /\ UNCHANGED <<days, clock, txvars, racevars, rev, book, calc, today>>

\* MarkHolidayIntentHandler; holidayName is the slot value or None
MarkHolidayIntent(holidayName, token, fetch, fail) ==
  /\ rev = "alexa" /\ sess = "open"
  /\ IF ~token
     THEN /\ Reply("MarkHolidayIntent", "link", None, "holiday", None, FALSE)
          /\ UNCHANGED <<db, attrs>>
     ELSE IF holidayName = None
     THEN /\ Reply("MarkHolidayIntent", "askName", None, "holiday", None, TRUE)
          /\ UNCHANGED <<db, attrs>>
     ELSE LET p == ResolveUser(db, TRUE, fetch)
              existingStatus == GetDayStatus(p.db, p.uid, today)
          IN IF SameStatus(existingStatus, "holiday")
             THEN /\ db' = p.db
                  /\ UNCHANGED attrs
                  /\ Reply("MarkHolidayIntent", "already", p.uid, "holiday", "holiday", FALSE)
             ELSE IF existingStatus.status # None
             THEN /\ db' = p.db
                  /\ attrs' = [attrs EXCEPT !.pendingStatusChange =
                                 PendingStatusChange(today, "holiday",
                                                     existingStatus.status, holidayName)]
                  /\ Reply("MarkHolidayIntent", "confirm", p.uid, "holiday",
                           existingStatus.status, TRUE)
             ELSE IF fail
             THEN /\ db' = p.db
                  /\ UNCHANGED attrs
                  /\ Reply("MarkHolidayIntent", "error", p.uid, "holiday", None, FALSE)
             ELSE /\ db' = SetDayStatus(p.db, p.uid, today, "holiday", holidayName)
                  /\ UNCHANGED attrs
                  /\ Reply("MarkHolidayIntent", "marked", p.uid, "holiday", None, FALSE)
  /\ UNCHANGED <<days, clock, txvars, racevars, rev, book, calc, today>>

\* MonthlyAttendanceIntentHandler: the percentage is spoken, nothing is kept
MonthlyAttendanceIntent(token, fetch) ==
  /\ rev = "alexa" /\ sess = "open"
  /\ IF ~token
     THEN /\ Reply("MonthlyAttendanceIntent", "link", None, None, None, FALSE)
          /\ UNCHANGED db
     ELSE LET p == ResolveUser(db, TRUE, fetch)
          IN /\ db' = p.db
             /\ Reply("MonthlyAttendanceIntent", "percentage", p.uid, None, None, FALSE)
  /\ UNCHANGED <<days, clock, txvars, racevars, rev, book, calc, today, attrs>>

\* YesIntentHandler: getUserKey runs without a token check; fail: migrateUserData
\* or setDayStatus throws, and the catch block leaves pendingStatusChange in place
YesIntent(token, fetch, fail) ==
  /\ rev = "alexa" /\ sess = "open"
  /\ IF attrs.pendingStatusChange # NoPending
     THEN LET pending == attrs.pendingStatusChange
              r == GetUserKey(db, token, fetch)
          IN IF fail
             THEN /\ db' = r.db
                  /\ UNCHANGED attrs
                  /\ Reply("AMAZON.YesIntent", "error", r.uid, pending.newStatus,
                           pending.oldStatus, FALSE)
             ELSE /\ db' = SetDayStatus(MigrateUserData(r.db, r.uid), r.uid, pending.date,
                                        pending.newStatus, pending.holidayName)
                  /\ attrs' = DeletePending(attrs)
                  /\ Reply("AMAZON.YesIntent", "changed", r.uid, pending.newStatus,
                           pending.oldStatus, FALSE)
     ELSE IF ~attrs.inSessionCreation
     THEN /\ attrs' = [attrs EXCEPT !.inSessionCreation = TRUE,
                                    !.sessionCreationStep = "name"]
          /\ Reply("AMAZON.YesIntent", "askSessionName", None, None, None, TRUE)
          /\ UNCHANGED db
     ELSE /\ Reply("AMAZON.YesIntent", "next", None, None, None, TRUE)
          /\ UNCHANGED <<db, attrs>>
  /\ UNCHANGED <<days, clock, txvars, racevars, rev, book, calc, today>>

\* NoIntentHandler
NoIntent ==
  /\ rev = "alexa" /\ sess = "open"
  /\ attrs' = IF attrs.inSessionCreation
              THEN [DeletePending(attrs) EXCEPT
                      !.inSessionCreation = FALSE, !.sessionCreationStep = None,
                      !.pendingSessionName = None, !.pendingStartDate = NoDate,
                      !.shouldSetAsPreset = FALSE]
              ELSE DeletePending(attrs)
  /\ Reply("AMAZON.NoIntent", "kept", None, attrs.pendingStatusChange.newStatus,
           attrs.pendingStatusChange.oldStatus, FALSE)
  /\ UNCHANGED <<days, clock, txvars, racevars, rev, book, calc, today, db>>

\* HelpIntentHandler
HelpIntent ==
  /\ rev = "alexa" /\ sess = "open"
  /\ Reply("AMAZON.HelpIntent", "help", None, None, None, TRUE)
  /\ UNCHANGED <<days, clock, txvars, racevars, rev, book, calc, today, db, attrs>>

\* FallbackIntentHandler
FallbackIntent ==
  /\ rev = "alexa" /\ sess = "open"
  /\ Reply("AMAZON.FallbackIntent", "fallback", None, None, None, TRUE)
  /\ UNCHANGED <<days, clock, txvars, racevars, rev, book, calc, today, db, attrs>>

\* CancelAndStopIntentHandler
CancelAndStopIntent ==
  /\ rev = "alexa" /\ sess = "open"
  /\ Reply("AMAZON.StopIntent", "goodbye", None, None, None, FALSE)
  /\ UNCHANGED <<days, clock, txvars, racevars, rev, book, calc, today, db, attrs>>

\* ----------------------------- part_002: intent handlers on per-day documents
\* localWeekday1Mon7Sun(): 1 = Monday ... 7 = Sunday, of the current day
LocalWeekday1Mon7Sun == IF today % 7 = 0 THEN 7 ELSE today % 7

\* isDayOffToday(dateYmd, weekday1to7, cfg); cfg is the panel/index document
IsDayOffToday(date, weekday1to7, cfg) ==
  \/ weekday1to7 = 7
  \/ weekday1to7 \in cfg.weeklyDaysOff

\* setStatusOverwrite(uid, date, status, extra): set(.., { merge: true }) writes
\* status, createdAt and the fields of extra, and keeps the other stored fields
SetStatusOverwrite(ds, date, status, holidayName, at) ==
  [ds EXCEPT ![date] =
     [status |-> status,
      holidayName |-> IF status = "holiday" THEN holidayName ELSE ds[date].holidayName,
      createdAt |-> at]]

\* MarkPresentIntentHandler, MarkAbsentIntentHandler and MarkHolidayIntentHandler
\* of part_002; setStatusIfEmpty runs with no other writer: its transaction
\* finds the document absent and commits, or fails (fail) with reason 'unknown'
MarkIntentDays(status, holidayName, token, fail) ==
  /\ rev = "part_002" /\ sess = "open"
  /\ clock < MaxClock
  /\ status = "holiday" \/ holidayName = None
  /\ IF ~token
     THEN /\ Reply(IntentOf(status), "link", None, status, None, FALSE)
          /\ UNCHANGED <<days, clock, attrs>>
     ELSE IF status = "holiday" /\ holidayName = None
     THEN /\ Reply(IntentOf(status), "askName", None, status, None, TRUE)
          /\ UNCHANGED <<days, clock, attrs>>
     ELSE IF IsDayOffToday(today, LocalWeekday1Mon7Sun, db.panel)
     THEN /\ Reply(IntentOf(status), "nonworking", AlexaId, status, None, FALSE)
          /\ UNCHANGED <<days, clock, attrs>>
     ELSE LET existing == days[today]
          IN IF ~DocExists(existing) \/ existing.status = None
             THEN IF fail
                  THEN /\ Reply(IntentOf(status), "error", AlexaId, status, None, FALSE)
                       /\ UNCHANGED <<days, clock, attrs>>
                  ELSE /\ days' = [days EXCEPT ![today] =
                                     DayDoc(status, holidayName, clock + 1)]
                       /\ clock' = clock + 1
                       /\ UNCHANGED attrs
                       /\ Reply(IntentOf(status), "marked", AlexaId, status, None, FALSE)
             ELSE IF existing.status = status
             THEN /\ Reply(IntentOf(status), "already", AlexaId, status, status, FALSE)
                  /\ UNCHANGED <<days, clock, attrs>>
             ELSE /\ attrs' = [attrs EXCEPT !.pendingStatusChange =
                                 [date |-> today, newStatus |-> status,
                                  oldStatus |-> None, holidayName |-> holidayName]]
                  /\ Reply(IntentOf(status), "confirm", AlexaId, status,
                           existing.status, TRUE)
                  /\ UNCHANGED <<days, clock>>
  /\ UNCHANGED <<txvars, racevars, rev, book, calc, today, db>>

\* YesIntentHandler of part_002: every path after the pending check ends with
\* setSession(h, {})
YesIntentDays(token, fail) ==
  /\ rev = "part_002" /\ sess = "open"
  /\ clock < MaxClock
  /\ IF ~token
     THEN /\ Reply("AMAZON.YesIntent", "link", None, None, None, FALSE)
          /\ UNCHANGED <<days, clock, attrs>>
     ELSE IF attrs.pendingStatusChange = NoPending
     THEN /\ Reply("AMAZON.YesIntent", "nothing", None, None, None, FALSE)
          /\ UNCHANGED <<days, clock, attrs>>
     ELSE LET pending == attrs.pendingStatusChange
          IN /\ attrs' = NoAttrs
             /\ IF IsDayOffToday(pending.date, LocalWeekday1Mon7Sun, db.panel)
                THEN /\ Reply("AMAZON.YesIntent", "nonworking", AlexaId,
                              pending.newStatus, None, FALSE)
                     /\ UNCHANGED <<days, clock>>
                ELSE IF fail
                THEN /\ Reply("AMAZON.YesIntent", "error", AlexaId,
                              pending.newStatus, None, FALSE)
                     /\ UNCHANGED <<days, clock>>
                ELSE /\ days' = SetStatusOverwrite(days, pending.date, pending.newStatus,
                                                   pending.holidayName, clock + 1)
                     /\ clock' = clock + 1
                     /\ Reply("AMAZON.YesIntent", "changed", AlexaId,
                              pending.newStatus, None, FALSE)
  /\ UNCHANGED <<txvars, racevars, rev, book, calc, today, db>>

\* NoIntentHandler of part_002
NoIntentDays ==
  /\ rev = "part_002" /\ sess = "open"
  /\ attrs' = IF attrs.pendingStatusChange # NoPending THEN NoAttrs ELSE attrs
  /\ Reply("AMAZON.NoIntent",
           IF attrs.pendingStatusChange # NoPending THEN "kept" ELSE "okay",
           None, attrs.pendingStatusChange.newStatus, None, FALSE)
  /\ UNCHANGED <<days, clock, txvars, racevars, rev, book, calc, today, db>>

\* HelpIntentHandler and FallbackIntentHandler of part_002
HelpIntentDays ==
  /\ rev = "part_002" /\ sess = "open"
  /\ \E i \in {"AMAZON.HelpIntent", "AMAZON.FallbackIntent"} :
       Reply(i, IF i = "AMAZON.HelpIntent" THEN "help" ELSE "fallback",
             None, None, None, TRUE)
  /\ UNCHANGED <<days, clock, txvars, racevars, rev, book, calc, today, db, attrs>>

\* ----------------------------- alexa.js: mark requests that overlap
\* a request of the user that is at one of the awaits of its handler
NoReq ==
  [pc |-> "idle", date |-> 0, status |-> None, holidayName |-> None, uid |-> None,
   existing |-> None, userData |-> NoAttDoc, resp |-> None,
   pendingStatusChange |-> NoPending, alone |-> TRUE]

Resting(c) == req[c].pc \in {"idle", "done"}

\* a mark handler starts with a token: getUserKey, ensureUserCredentials,
\* migrateUserData
MarkBegin(c, status, fetch) ==
  /\ rev = "alexa"
  /\ req[c].pc = "idle"
  /\ LET p == ResolveUser(db, TRUE, fetch)
     IN /\ db' = p.db
        /\ req' = [x \in Calls |->
                     IF x = c
                     THEN [NoReq EXCEPT !.pc = "check", !.date = today, !.status = status,
                                        !.holidayName = IF status = "holiday"
                                                        THEN "Diwali" ELSE None,
                                        !.uid = p.uid,
                                        !.alone = \A y \in Calls \ {c} : Resting(y)]
                     ELSE [req[x] EXCEPT !.alone = req[x].alone /\ Resting(x)]]
  /\ UNCHANGED <<days, clock, txvars, rev, book, calc, today, attrs, sess, turn, svc, made>>

\* getUserData, isNonWorkingDay (not in MarkHolidayIntentHandler), getDayStatus
\* and the three outcomes that end the handler without a write
MarkCheck(c) ==
  /\ req[c].pc = "check"
  /\ LET r == req[c]
         userData == GetUserData(db, r.uid)
         existingStatus == GetDayStatus(db, r.uid, today)
     IN req' = [req EXCEPT ![c] =
          IF r.status # "holiday" /\ IsNonWorkingDay(today, userData)
          THEN [r EXCEPT !.pc = "done", !.resp = "nonworking"]
          ELSE IF SameStatus(existingStatus, r.status)
          THEN [r EXCEPT !.pc = "done", !.resp = "already",
                         !.existing = existingStatus.status]
          ELSE IF existingStatus.status # None
          THEN [r EXCEPT !.pc = "done", !.resp = "confirm",
                         !.existing = existingStatus.status,
                         !.pendingStatusChange =
                            PendingStatusChange(today, r.status, existingStatus.status,
                                                r.holidayName)]
          ELSE [r EXCEPT !.pc = "set"]]
  /\ UNCHANGED <<days, clock, txvars, convvars, svc, made>>

\* setDayStatus: const userData = await getUserData(uid)
SetDayStatusRead(c) ==
  /\ req[c].pc = "set"
  /\ req' = [req EXCEPT ![c].pc = "write", ![c].userData = GetUserData(db, req[c].uid)]
  /\ UNCHANGED <<days, clock, txvars, convvars, svc, made>>

\* setDayStatus: await updateUserData(uid, { records, holidays, notEnrolled }),
\* then the handler answers 'Successfully marked ...'
SetDayStatusWrite(c) ==
  /\ req[c].pc = "write"
  /\ db' = UpdateUserData(db, req[c].uid,
                          DayStatusUpdates(req[c].userData, req[c].date, req[c].status,
                                           req[c].holidayName),
                          {"records", "holidays", "notEnrolled"})
  /\ req' = [req EXCEPT ![c].pc = "done", ![c].resp = "marked"]
  /\ UNCHANGED <<days, clock, txvars, rev, book, calc, today, attrs, sess, turn, svc, made>>

\* setDayStatus(uid, date, status, extraData) is called for the Alexa user, by a
\* caller that is at 'const userData = await getUserData(uid)'; existing is what
\* getDayStatus reports for the date when the call is made; a holiday name is
\* passed with the status holiday only
SetDayStatusCall(c, date, status, holidayName) ==
  /\ rev = "alexa"
  /\ status = "holiday" \/ holidayName = None
  /\ req[c].pc = "idle"
  /\ req' = [x \in Calls |->
               IF x = c
               THEN [NoReq EXCEPT !.pc = "set", !.date = date, !.status = status,
                                  !.holidayName = holidayName, !.uid = AlexaId,
                                  !.existing = GetDayStatus(db, AlexaId, date).status,
                                  !.alone = \A y \in Calls \ {c} : Resting(y)]
               ELSE [req[x] EXCEPT !.alone = req[x].alone /\ Resting(x)]]
  /\ UNCHANGED <<days, clock, txvars, convvars, svc, made>>

\* ----------------------------- the session registry (the sessions array)
MaxSessionCalls == 3 \* session-registry calls made for the user
MaxTime == 1         \* instants at which session calls are made
SessionNames == {"Summer 2024", "summer-2024"}
Suffixes == {"k3f9", "x0a1"}

\* sessionName.toLowerCase()
ToLowerCase(name) == IF name = "Summer 2024" THEN "summer 2024" ELSE name

\* sessionName.toLowerCase().replace(/[^a-z0-9]/g, '').substring(0, 8)
CodeBase(name) ==
  IF name \in {"Summer 2024", "summer-2024"} THEN "summer20" ELSE ToLowerCase(name)

\* generateSessionCode(sessionName): the base followed by the suffix, which is
\* Math.random().toString(36).substring(2, 6) in alexa.js and
\* '_' + Date.now().toString(36) in part_002
GenerateSessionCode(name, suffix) == <<CodeBase(name), suffix>>

SessionData(name, code, at, selected) ==
  [name |-> name, code |-> code, createdAt |-> at, isSelected |-> selected]

\* sessions.findIndex(s => s.name.toLowerCase() === sessionName.toLowerCase()
\*                         || s.code === sessionCode), 0 for -1
FindIndex(sessions, name, code) ==
  LET I == {i \in 1..Len(sessions) :
              \/ ToLowerCase(sessions[i].name) = ToLowerCase(name)
              \/ sessions[i].code = code}
  IN IF I = {} THEN 0 ELSE CHOOSE i \in I : \A j \in I : i <= j

\* sessions.find / findIndex(s => s.code === sessionIdentifier
\*                  || s.name.toLowerCase() === sessionIdentifier.toLowerCase())
FindSession(sessions, ident) ==
  LET I == {i \in 1..Len(sessions) :
              \/ sessions[i].code = ident
              \/ ToLowerCase(sessions[i].name) = ToLowerCase(ident)}
  IN IF I = {} THEN 0 ELSE CHOOSE i \in I : \A j \in I : i <= j

\* a sort that is not stable: an element goes before the elements it ties with
RECURSIVE InsertBeforeEqual(_, _)
InsertBeforeEqual(x, sorted) ==
  IF sorted = <<>> THEN <<x>>
  ELSE IF Head(sorted).createdAt > x.createdAt
  THEN <<Head(sorted)>> \o InsertBeforeEqual(x, Tail(sorted))
  ELSE <<x>> \o sorted

\* sessions.sort((a, b) => new Date(b.createdAt) - new Date(a.createdAt)): stable
RECURSIVE InsertByCreatedAt(_, _)
InsertByCreatedAt(x, sorted) ==
  IF sorted = <<>> THEN <<x>>
  ELSE IF Head(sorted).createdAt >= x.createdAt
  THEN <<Head(sorted)>> \o InsertByCreatedAt(x, Tail(sorted))
  ELSE <<x>> \o sorted

RECURSIVE SortByCreatedAt(_)
SortByCreatedAt(sessions) ==
  IF sessions = <<>> THEN <<>>
  ELSE InsertByCreatedAt(sessions[Len(sessions)],
                         SortByCreatedAt(SubSeq(sessions, 1, Len(sessions) - 1)))

ClearSelected(sessions) ==
  [i \in 1..Len(sessions) |-> [sessions[i] EXCEPT !.isSelected = FALSE]]

\* sessions.map(session => ({ ...session, isSelected: session.code === code }))
SelectByCode(sessions, code) ==
  [i \in 1..Len(sessions) |-> [sessions[i] EXCEPT !.isSelected = (sessions[i].code = code)]]
SelectByIndex(sessions, idx) ==
  [i \in 1..Len(sessions) |-> [sessions[i] EXCEPT !.isSelected = (i = idx)]]

\* saveSession of alexa.js from its findIndex on, sessionData built
SaveSessionData(sessions, sessionData, setAsPreset) ==
  LET existingIndex == FindIndex(sessions, sessionData.name, sessionData.code)
      placed == IF existingIndex # 0 THEN [sessions EXCEPT ![existingIndex] = sessionData]
                ELSE Append(sessions, sessionData)
      flagged == IF setAsPreset THEN SelectByCode(placed, sessionData.code) ELSE placed
  IN SortByCreatedAt(flagged)

\* saveSession of alexa.js, from the sessions read to the array written
SaveSessionAlexa(sessions, name, code, at, setAsPreset) ==
  SaveSessionData(sessions, SessionData(name, code, at, setAsPreset), setAsPreset)

\* saveSession of part_002 (the flag is named alexapresetvalue there)
SaveSessionPreset(sessions, name, code, at, setAsPreset) ==
  LET sessionData == SessionData(name, code, at, setAsPreset)
      cleared == IF setAsPreset THEN ClearSelected(sessions) ELSE sessions
      existingIndex == FindIndex(cleared, name, code)
      placed == IF existingIndex # 0 THEN [cleared EXCEPT ![existingIndex] = sessionData]
                ELSE Append(cleared, sessionData)
  IN SortByCreatedAt(placed)

\* setAlexaPresetSession, from the sessions read to the array written; found # 0
SetAlexaPresetSessionUpdate(sessions, found) ==
  IF rev = "alexa" THEN SelectByCode(sessions, sessions[found].code)
  ELSE SelectByIndex(sessions, found)

\* a call that is not at its await holds nothing
NoSvc == [pc |-> "idle", op |-> None, sessions |-> <<>>]

\* a new call takes the first slot that holds no call: the slots are
\* interchangeable, and any number of them up to NCalls may be taken at once
FreeSlot(c) ==
  /\ svc[c].pc = "idle"
  /\ \A k \in Calls : k < c => svc[k].pc # "idle"

\* saveSession(uid, sessionName, startDate, endDate, setAsPreset) up to
\* 'await updateUserData'; clock is the time of the call
SaveSessionRead(c, name, suffix, setAsPreset) ==
  /\ FreeSlot(c) /\ made < MaxSessionCalls
  /\ LET sessions == GetUserData(db, AlexaId).sessions
         code == GenerateSessionCode(name, IF rev = "alexa" THEN suffix ELSE clock)
     IN svc' = [svc EXCEPT ![c] =
          [pc |-> "write", op |-> "saveSession",
           sessions |-> IF rev = "alexa"
                        THEN SaveSessionAlexa(sessions, name, code, clock, setAsPreset)
                        ELSE SaveSessionPreset(sessions, name, code, clock, setAsPreset)]]
  /\ made' = made + 1
  /\ UNCHANGED <<days, clock, txvars, convvars, req>>

\* setAlexaPresetSession(uid, sessionIdentifier) up to 'await updateUserData';
\* it returns without a write when there is no session or none is found
SetAlexaPresetSessionRead(c, ident) ==
  /\ FreeSlot(c) /\ made < MaxSessionCalls
  /\ LET sessions == GetUserData(db, AlexaId).sessions
         found == FindSession(sessions, ident)
     IN svc' = [svc EXCEPT ![c] =
          IF found = 0 THEN NoSvc
          ELSE [pc |-> "write", op |-> "setAlexaPresetSession",
                sessions |-> SetAlexaPresetSessionUpdate(sessions, found)]]
  /\ made' = made + 1
  /\ UNCHANGED <<days, clock, txvars, convvars, req>>

\* clearAlexaPresetSession(uid) of alexa.js up to 'await updateUserData'
ClearAlexaPresetSessionRead(c) ==
  /\ rev = "alexa"
  /\ FreeSlot(c) /\ made < MaxSessionCalls
  /\ svc' = [svc EXCEPT ![c] =
       [pc |-> "write", op |-> "clearAlexaPresetSession",
        sessions |-> ClearSelected(GetUserData(db, AlexaId).sessions)]]
  /\ made' = made + 1
  /\ UNCHANGED <<days, clock, txvars, convvars, req>>

\* await updateUserData(uid, { sessions }) of the three functions
UpdateSessions(c) ==
  /\ svc[c].pc = "write"
  /\ db' = UpdateUserData(db, AlexaId, [sessions |-> svc[c].sessions], {"sessions"})
  /\ svc' = [svc EXCEPT ![c] = NoSvc]
  /\ UNCHANGED <<days, clock, txvars, rev, book, calc, today, attrs, sess, turn, req, made>>

\* time passes between calls
Tick ==
  /\ clock < MaxTime
  /\ clock' = clock + 1
  /\ UNCHANGED <<days, txvars, convvars, racevars>>


\* ----------------------------- stored session lists for setAlexaPresetSession
\* sessions saved before the calls observed: 'Summer 2024', a session that was
\* named by the text of that session's code, and 'winter'; the codes are
\* written as the text generateSessionCode returns
NamedByCode == "summer20k3f9"
SavedSessions ==
  {[name |-> "Summer 2024", code |-> NamedByCode],
   [name |-> NamedByCode, code |-> "summer20x0a1"],
   [name |-> "winter", code |-> "winterx0a1"]}

\* what a user may say or pass as sessionIdentifier
Identifiers == {"Summer 2024", "summer 2024", NamedByCode, "summer20x0a1", "autumn"}

\* the arrays saveSession leaves: distinct sessions, the newest first, at most
\* one flagged
StoredLists ==
  {list \in UNION {[1..n -> SavedSessions \X BOOLEAN] : n \in 0..Cardinality(SavedSessions)} :
     /\ \A i, j \in 1..Len(list) : i # j => list[i][1] # list[j][1]
     /\ Cardinality({i \in 1..Len(list) : list[i][2]}) <= 1}
StoredList(list) ==
  [i \in 1..Len(list) |-> SessionData(list[i][1].name, list[i][1].code, 0 - i, list[i][2])]

\* ----------------------------- selecting a session by code or by name
\* sessions of which two have the same name but for the case of a letter, as
\* saveSession leaves them after it has replaced an entry that it matched by
\* its code (or as the web application stores them)
NamedAlike ==
  {[name |-> "Summer 2024", code |-> "summer20k3f9"],
   [name |-> "summer 2024", code |-> "summer20x0a1"],
   [name |-> "winter", code |-> "winterx0a1"]}

\* the value of the sessionName slot, None for an empty slot
SaidSessions == {"Summer 2024", "summer20x0a1", "winter", "autumn"}

AlikeLists ==
  {list \in UNION {[1..n -> NamedAlike \X BOOLEAN] : n \in 0..Cardinality(NamedAlike)} :
     /\ \A i, j \in 1..Len(list) : i # j => list[i][1] # list[j][1]
     /\ Cardinality({i \in 1..Len(list) : list[i][2]}) <= 1}

\* a setAlexaPresetSession that stores its cleared copy of the sessions when it
\* finds none
SetAlexaPresetSessionCleared(d, uid, sessionIdentifier) ==
  LET sessions == GetUserData(d, uid).sessions
      found == FindSession(sessions, sessionIdentifier)
  IN IF sessions = <<>> THEN [success |-> FALSE, error |-> "No sessions found", db |-> d]
     ELSE IF found = 0
     THEN [success |-> FALSE, error |-> "Session not found",
           db |-> UpdateUserData(d, uid, [sessions |-> ClearSelected(sessions)],
                                 {"sessions"})]
     ELSE [success |-> TRUE, error |-> None,
           db |-> UpdateUserData(d, uid,
                                 [sessions |-> SetAlexaPresetSessionUpdate(sessions, found)],
                                 {"sessions"})]

\* setAlexaPresetSession(uid, sessionIdentifier) run without interruption, both
\* revisions: what it returns, and the store it leaves
SetAlexaPresetSession(d, uid, sessionIdentifier) ==
  LET sessions == GetUserData(d, uid).sessions
      found == FindSession(sessions, sessionIdentifier)
  IN IF sessions = <<>> THEN [success |-> FALSE, error |-> "No sessions found", db |-> d]
     ELSE IF found = 0 THEN [success |-> FALSE, error |-> "Session not found", db |-> d]
     ELSE [success |-> TRUE, error |-> None,
           db |-> UpdateUserData(d, uid,
                                 [sessions |-> SetAlexaPresetSessionUpdate(sessions, found)],
                                 {"sessions"})]

\* setAlexaPresetSession(uid, sessionIdentifier) is called for the Google user
\* and returns; the turn records the identifier and the result
SetAlexaPresetSessionCall(sessionIdentifier) ==
  /\ LET r == SetAlexaPresetSession(db, GoogleUid, sessionIdentifier)
     IN /\ db' = r.db
        /\ turn' = [intent |-> "setAlexaPresetSession",
                    resp |-> IF r.success THEN "success" ELSE r.error,
                    uid |-> GoogleUid, status |-> sessionIdentifier, existing |-> None,
                    seq |-> 1 - turn.seq]
  /\ UNCHANGED <<days, clock, txvars, racevars, rev, book, calc, today, attrs, sess>>

\* the two handlers with an empty sessionName slot: the sessions are listed
ListSessions(intent, token, fetch) ==
  IF ~token
  THEN /\ Reply(intent, "link", None, None, None, FALSE)
       /\ UNCHANGED db
  ELSE LET p == ResolveUser(db, TRUE, fetch)
       IN /\ db' = p.db
          /\ IF GetUserData(p.db, p.uid).sessions = <<>>
             THEN Reply(intent, "noSessions", p.uid, None, None, FALSE)
             ELSE Reply(intent, "listSessions", p.uid, None, None, TRUE)

\* SetAlexaPresetIntentHandler; sessionName is the slot value or None, and the
\* turn records it in the place of the status
SetAlexaPresetIntent(sessionName, token, fetch) ==
  /\ rev = "alexa" /\ sess = "open"
  /\ IF ~token \/ sessionName = None
     THEN ListSessions("SetAlexaPresetIntent", token, fetch)
     ELSE LET p == ResolveUser(db, TRUE, fetch)
              result == SetAlexaPresetSession(p.db, p.uid, sessionName)
          IN /\ db' = result.db
             /\ IF result.success
                THEN Reply("SetAlexaPresetIntent", "preset", p.uid, sessionName, None, FALSE)
                ELSE Reply("SetAlexaPresetIntent", "notFound", p.uid, sessionName, None, TRUE)
  /\ UNCHANGED <<days, clock, txvars, racevars, rev, book, calc, today, attrs>>

\* SelectSessionIntentHandler
SelectSessionIntent(sessionName, token, fetch) ==
  /\ rev = "alexa" /\ sess = "open"
  /\ IF ~token \/ sessionName = None
     THEN ListSessions("SelectSessionIntent", token, fetch)
     ELSE LET p == ResolveUser(db, TRUE, fetch)
              sessions == GetUserData(p.db, p.uid).sessions
              codeMatches == {i \in 1..Len(sessions) : sessions[i].code = sessionName}
              nameMatches == {i \in 1..Len(sessions) :
                                ToLowerCase(sessions[i].name) = ToLowerCase(sessionName)}
              first(I) == CHOOSE i \in I : \A j \in I : i <= j
          IN IF codeMatches # {}
             THEN /\ db' = SetAlexaPresetSession(p.db, p.uid,
                                                 sessions[first(codeMatches)].code).db
                  /\ Reply("SelectSessionIntent", "selected", p.uid, sessionName, None, FALSE)
             ELSE IF Cardinality(nameMatches) = 1
             THEN /\ db' = SetAlexaPresetSession(p.db, p.uid,
                                                 sessions[first(nameMatches)].code).db
                  /\ Reply("SelectSessionIntent", "selected", p.uid, sessionName, None, FALSE)
             ELSE IF Cardinality(nameMatches) > 1
             THEN /\ db' = p.db
                  /\ Reply("SelectSessionIntent", "disambiguate", p.uid, sessionName, None,
                           TRUE)
             ELSE /\ db' = p.db
                  /\ IF sessions = <<>>
                     THEN Reply("SelectSessionIntent", "noSessions", p.uid, sessionName, None,
                                FALSE)
                     ELSE Reply("SelectSessionIntent", "notFound", p.uid, sessionName, None,
                                TRUE)
  /\ UNCHANGED <<days, clock, txvars, racevars, rev, book, calc, today, attrs>>

\* ----------------------------- the environment of a conversation
\* the session ends (a response without reprompt, or the user leaves): the next
\* request opens a new session with empty attributes
SessionEnded ==
  /\ sess' = "open"
  /\ attrs' = NoAttrs
  /\ attrs # NoAttrs \/ sess # "open"
  /\ UNCHANGED <<days, clock, txvars, racevars, rev, book, calc, today, db, turn>>

\* midnight passes
NextDay ==
  /\ today < MaxDay
  /\ today' = today + 1
  /\ UNCHANGED <<days, clock, txvars, racevars, rev, book, calc, db, attrs, sess, turn>>

\* ------------------------------------------- the calendar of the percentages
\* a date 'YYYY-MM-DD' is the triple <<year, month, day>>, a month 'YYYY-MM' the
\* pair <<year, month>>; an absent or null date is NoDate

\* dateStr > today on two 'YYYY-MM-DD' strings, date objects compared with <=
DateLT(a, b) ==
  \/ a[1] < b[1]
  \/ a[1] = b[1] /\ a[2] < b[2]
  \/ a[1] = b[1] /\ a[2] = b[2] /\ a[3] < b[3]

DateLE(a, b) == a = b \/ DateLT(a, b)

\* new Date(year, month, 0).getDate()
DaysInMonth(year, month) ==
  IF month = 2
  THEN IF year % 4 = 0 /\ (year % 100 # 0 \/ year % 400 = 0) THEN 29 ELSE 28
  ELSE IF month \in {4, 6, 9, 11} THEN 30 ELSE 31

\* currentDate.setDate(currentDate.getDate() + 1)
NextDate(date) ==
  IF date[3] < DaysInMonth(date[1], date[2]) THEN <<date[1], date[2], date[3] + 1>>
  ELSE IF date[2] < 12 THEN <<date[1], date[2] + 1, 1>>
  ELSE <<date[1] + 1, 1, 1>>

IsLeapYear(year) == year % 4 = 0 /\ (year % 100 # 0 \/ year % 400 = 0)

\* the days of the year before the month, and the days from 2023-01-01 to the
\* first day of a year of this century
DaysBeforeMonth(year, month) ==
  <<0, 31, 59, 90, 120, 151, 181, 212, 243, 273, 304, 334>>[month]
    + (IF month > 2 /\ IsLeapYear(year) THEN 1 ELSE 0)

DaysBeforeYear(year) == 365 * (year - 2023) + ((year - 1) \div 4 - 2022 \div 4)

\* the days from Sunday 2023-01-01 to the date, so that new Date(dateStr).getDay()
\* is Weekday(DayNumber(date))
DayNumber(date) == DaysBeforeYear(date[1]) + DaysBeforeMonth(date[1], date[2]) + date[3] - 1

\* userData.holidays.some(h => h.date === dateStr)
IsHoliday(userData, dateStr) ==
  \E i \in 1..Len(userData.holidays) : userData.holidays[i].date = dateStr

\* userData.notEnrolled.includes(dateStr)
IsNotEnrolled(userData, dateStr) ==
  \E i \in 1..Len(userData.notEnrolled) : userData.notEnrolled[i] = dateStr

\* userData.records[dateStr] === true
RecordedPresent(userData, dateStr) ==
  dateStr \in DOMAIN userData.records /\ userData.records[dateStr] = "true"

\* the counters of a percentage loop, with the dates that incremented
\* totalWorkingDays (counted) and the dates the loop went through (visited)
NoCount == [presentDays |-> 0, totalWorkingDays |-> 0, counted |-> <<>>, visited |-> <<>>]

\* the body of the loops of calculateMonthlyAttendance and
\* calculateSessionAttendance, after the check against today
CountDay(userData, dateStr, acc) ==
  IF \/ IsNonWorkingDay(DayNumber(dateStr), userData)
     \/ IsHoliday(userData, dateStr)
     \/ IsNotEnrolled(userData, dateStr)
  THEN [acc EXCEPT !.visited = Append(@, dateStr)]
  ELSE [presentDays |-> acc.presentDays + (IF RecordedPresent(userData, dateStr) THEN 1 ELSE 0),
        totalWorkingDays |-> acc.totalWorkingDays + 1,
        counted |-> Append(acc.counted, dateStr),
        visited |-> Append(acc.visited, dateStr)]

\* Math.round((presentDays / totalWorkingDays) * 100), 0 for no working day: the
\* product is computed in double precision, and for fewer than 400 working days
\* it falls below the half it stands for exactly at the ratios 23/40, 29/200,
\* 57/200 and 113/200, which Math.round then rounds down
FloorPct(presentDays, totalWorkingDays) ==
  IF totalWorkingDays = 0 THEN 0 ELSE (100 * presentDays) \div totalWorkingDays
MathRoundPct(presentDays, totalWorkingDays) ==
  IF totalWorkingDays = 0 THEN 0
  ELSE IF \/ 40 * presentDays = 23 * totalWorkingDays
          \/ 200 * presentDays \in {29 * totalWorkingDays, 57 * totalWorkingDays,
                                    113 * totalWorkingDays}
  THEN (100 * presentDays) \div totalWorkingDays
  ELSE (200 * presentDays + totalWorkingDays) \div (2 * totalWorkingDays)

\* if (dateStr > today) continue, taken out for a loop that counts every day
EveryDay(dateStr, day) == TRUE
NotAfter(dateStr, day) == ~DateLT(day, dateStr)

RECURSIVE MonthlyLoop(_, _, _, _, _)
MonthlyLoop(userData, day0, yearMonth, day, acc) ==
  IF day > DaysInMonth(yearMonth[1], yearMonth[2]) THEN acc
  ELSE LET dateStr == <<yearMonth[1], yearMonth[2], day>> IN
         MonthlyLoop(userData, day0, yearMonth, day + 1,
                     IF NotAfter(dateStr, day0) THEN CountDay(userData, dateStr, acc)
                     ELSE [acc EXCEPT !.visited = Append(@, dateStr)])

\* calculateMonthlyAttendance(uid, yearMonth), on the user data read
CalculateMonthlyAttendance(userData, day0, yearMonth) ==
  LET acc == MonthlyLoop(userData, day0, yearMonth, 1, NoCount) IN
    [percentage |-> MathRoundPct(acc.presentDays, acc.totalWorkingDays),
     presentDays |-> acc.presentDays,
     totalWorkingDays |-> acc.totalWorkingDays,
     counted |-> acc.counted,
     visited |-> acc.visited]

\* while (currentDate <= end && currentDate <= today)
RECURSIVE SessionLoop(_, _, _, _, _)
SessionLoop(userData, currentDate, end, day0, acc) ==
  IF DateLE(currentDate, end) /\ DateLE(currentDate, day0)
  THEN SessionLoop(userData, NextDate(currentDate), end, day0,
                   CountDay(userData, currentDate, acc))
  ELSE acc

\* ------------------------------------- alexa.js: the session of a percentage
\* an entry of userData.sessions as saveSession writes it, the code written out
\* as the string it is; endDate is NoDate for a session stored without one
DatedSession(name, code, startDate, endDate, at, selected) ==
  [name |-> name, code |-> code, startDate |-> startDate, endDate |-> endDate,
   createdAt |-> at, isSelected |-> selected]

\* what find() returns when no entry matches, and a missing document
NoSession == DatedSession(None, None, NoDate, NoDate, 0, FALSE)

\* sessions.find(s => s.isSelected === true)
FindSelected(sessions) ==
  IF \E i \in 1..Len(sessions) : sessions[i].isSelected
  THEN sessions[CHOOSE i \in 1..Len(sessions) :
                  /\ sessions[i].isSelected
                  /\ \A j \in 1..(i - 1) : ~sessions[j].isSelected]
  ELSE NoSession

\* sessions.find(s => s.name.toLowerCase() === sessionName.toLowerCase()
\*                    || s.code === sessionName)
FindNamed(sessions, sessionName) ==
  LET hit(s) == ToLowerCase(s.name) = ToLowerCase(sessionName) \/ s.code = sessionName IN
    IF \E i \in 1..Len(sessions) : hit(sessions[i])
    THEN sessions[CHOOSE i \in 1..Len(sessions) :
                    /\ hit(sessions[i])
                    /\ \A j \in 1..(i - 1) : ~hit(sessions[j])]
    ELSE NoSession

\* what a percentage function returns, with the range it resolved and the
\* dates it counted; prompt: the handler asked for a session instead
Outcome(acc, percentage, sessionUsed, startDate, endDate) ==
  [percentage |-> percentage, sessionName |-> sessionUsed,
   presentDays |-> acc.presentDays, totalWorkingDays |-> acc.totalWorkingDays,
   counted |-> acc.counted, visited |-> acc.visited,
   start |-> startDate, end |-> endDate, prompt |-> FALSE]

Range(startDate, endDate, sessionUsed) ==
  [startDate |-> startDate, endDate |-> endDate, sessionUsed |-> sessionUsed]

\* if (selectedSession) { startDate = ...; endDate = selectedSession.endDate || today }
SelectedRange(sessions, day0) ==
  LET selectedSession == FindSelected(sessions) IN
    IF selectedSession # NoSession
    THEN Range(selectedSession.startDate,
               IF selectedSession.endDate # NoDate THEN selectedSession.endDate ELSE day0,
               IF selectedSession.name # None THEN selectedSession.name
               ELSE "current session")
    ELSE Range(NoDate, NoDate, "current session")

\* part_002: if (presetSession) { startDate = ...; endDate = presetSession.endDate }
\* (the flag is stored as alexapresetvalue there)
PresetRange(sessions, day0) ==
  LET presetSession == FindSelected(sessions) IN
    IF presetSession # NoSession
    THEN Range(presetSession.startDate, presetSession.endDate, presetSession.name)
    ELSE Range(NoDate, NoDate, "current session")

\* if ((!startDate || !endDate) && sessionName) { ... }
NamedRange(sessions, sessionName, r) ==
  IF (r.startDate = NoDate \/ r.endDate = NoDate) /\ sessionName # None
  THEN LET session == FindNamed(sessions, sessionName) IN
         IF session # NoSession
         THEN Range(session.startDate, session.endDate, session.name)
         ELSE r
  ELSE r

\* if (!startDate || !endDate) { the current year }
YearRange(day0, r) ==
  IF r.startDate = NoDate \/ r.endDate = NoDate
  THEN Range(<<day0[1], 1, 1>>, <<day0[1], 12, 31>>, "current year")
  ELSE r

\* the loop of calculateSessionAttendance and its result
SessionResult(userData, day0, r) ==
  LET acc == SessionLoop(userData, r.startDate, r.endDate, day0, NoCount) IN
    Outcome(acc, MathRoundPct(acc.presentDays, acc.totalWorkingDays), r.sessionUsed,
            r.startDate, r.endDate)

\* calculateSessionAttendance(uid, sessionName), alexa.js, on the user data read
CalculateSessionAttendance(userData, day0, sessionName) ==
  SessionResult(userData, day0,
                YearRange(day0, NamedRange(userData.sessions, sessionName,
                                           SelectedRange(userData.sessions, day0))))

\* calculateSessionAttendance(uid, sessionName), part_002
CalculateSessionAttendancePreset(userData, day0, sessionName) ==
  SessionResult(userData, day0,
                YearRange(day0, NamedRange(userData.sessions, sessionName,
                                           PresetRange(userData.sessions, day0))))

\* ---------------------------- part_002: the session window and the day counts
\* the day documents are a function from the dates that can hold one to the
\* status stored, None for no document
DayIds(dayDocs) == {d \in DOMAIN dayDocs : dayDocs[d] # None}

MinDate(ds) == CHOOSE d \in ds : \A e \in ds : DateLE(d, e)
MaxDate(ds) == CHOOSE d \in ds : \A e \in ds : DateLE(e, d)

\* the documents of a collection come in the order of their ids
RECURSIVE SortDates(_)
SortDates(ds) ==
  IF ds = {} THEN <<>> ELSE <<MinDate(ds)>> \o SortDates(ds \ {MinDate(ds)})

\* fetchSessionByCreatedAt(uid, createdAtValue), 0 for no value: the session
\* created at that instant, else the most recently created one
FetchSessionByCreatedAt(sessions, createdAtValue) ==
  LET arr == SortByCreatedAt(sessions) IN
    IF createdAtValue # 0 /\ \E i \in 1..Len(arr) : arr[i].createdAt = createdAtValue
    THEN arr[CHOOSE i \in 1..Len(arr) :
               /\ arr[i].createdAt = createdAtValue
               /\ \A j \in 1..(i - 1) : arr[j].createdAt # createdAtValue]
    ELSE IF arr # <<>> THEN arr[1] ELSE NoSession

\* ensureSessionSelectedOrPrompt(h): TRUE, or FALSE for the prompt
EnsureSessionSelectedOrPrompt(chosen, sessions) ==
  \/ chosen # NoSession /\ (chosen.createdAt # 0 \/ chosen.startDate # NoDate)
  \/ sessions = <<>>

\* the scan of inferSessionFromAttendance for the earliest day: the first month
\* of the first year that lists one, a year going on to the next when that
\* month lists no day
RECURSIVE EarliestDay(_, _)
EarliestDay(dayIds, years) ==
  IF years = {} THEN NoDate
  ELSE LET y == CHOOSE y \in years : \A z \in years : y <= z
           monthIds == {d[2] : d \in {e \in dayIds : e[1] = y}}
       IN IF monthIds = {} THEN EarliestDay(dayIds, years \ {y})
          ELSE LET firstMonthId == CHOOSE m \in monthIds : \A n \in monthIds : m <= n
                   ids == {d \in dayIds : d[1] = y /\ d[2] = firstMonthId}
               IN IF ids # {} THEN MinDate(ids) ELSE EarliestDay(dayIds, years \ {y})

\* the scan for the latest day: the last month of the last year that lists one
RECURSIVE LatestDay(_, _)
LatestDay(dayIds, years) ==
  IF years = {} THEN NoDate
  ELSE LET y == CHOOSE y \in years : \A z \in years : y >= z
           monthIds == {d[2] : d \in {e \in dayIds : e[1] = y}}
       IN IF monthIds = {} THEN LatestDay(dayIds, years \ {y})
          ELSE LET lastMonthId == CHOOSE m \in monthIds : \A n \in monthIds : m >= n
                   ids == {d \in dayIds : d[1] = y /\ d[2] = lastMonthId}
               IN IF ids # {} THEN MaxDate(ids) ELSE LatestDay(dayIds, years \ {y})

\* inferSessionFromAttendance(uid): the year collections and the month
\* documents listed are those that hold a day document
InferSessionFromAttendance(dayDocs, day0) ==
  LET years == {d[1] : d \in DayIds(dayDocs)}
      earliest == EarliestDay(DayIds(dayDocs), years)
      latest == LatestDay(DayIds(dayDocs), years)
  IN IF years = {} \/ earliest = NoDate THEN Range(NoDate, NoDate, None)
     ELSE Range(earliest, IF latest # NoDate THEN latest ELSE day0, None)

\* getSessionWindow(uid)
GetSessionWindow(chosen, sessions, dayDocs, day0) ==
  LET resolved == FetchSessionByCreatedAt(sessions, chosen.createdAt)
      latest == FetchSessionByCreatedAt(sessions, 0)
      inferred == InferSessionFromAttendance(dayDocs, day0)
      orToday(endDate) == IF endDate # NoDate THEN endDate ELSE day0
  IN IF chosen # NoSession /\ chosen.createdAt # 0 /\ resolved # NoSession
        /\ resolved.startDate # NoDate
     THEN Range(resolved.startDate, orToday(resolved.endDate), resolved.name)
     ELSE IF chosen # NoSession /\ chosen.createdAt # 0 /\ chosen.startDate # NoDate
     THEN Range(chosen.startDate, orToday(chosen.endDate), chosen.name)
     ELSE IF latest # NoSession /\ latest.startDate # NoDate
     THEN Range(latest.startDate, orToday(latest.endDate), latest.name)
     ELSE IF inferred.startDate # NoDate THEN inferred
     ELSE Range(day0, day0, None)

\* ymRangeInclusive(startYMD, endYMD)
RECURSIVE YmRangeInclusive(_, _, _, _)
YmRangeInclusive(y, m, ey, em) ==
  IF y < ey \/ (y = ey /\ m <= em)
  THEN <<(<<y, m>>)>> \o (IF m + 1 > 12 THEN YmRangeInclusive(y + 1, 1, ey, em)
                          ELSE YmRangeInclusive(y, m + 1, ey, em))
  ELSE <<>>

\* snap.forEach(doc => ...) over the day documents of the months given: present
\* counts the status present, total the statuses present, absent and holiday
CountDocs(dayDocs, months) ==
  LET inMonths(d) == \E i \in 1..Len(months) : months[i] = <<d[1], d[2]>>
      docs == {d \in DayIds(dayDocs) : inMonths(d)}
      inTotal == {d \in docs : dayDocs[d] \in {"present", "absent", "holiday"}}
      present == {d \in docs : dayDocs[d] = "present"}
  IN [presentDays |-> Cardinality(present), totalWorkingDays |-> Cardinality(inTotal),
      counted |-> SortDates(inTotal), visited |-> SortDates(docs)]

\* Math.round(await computeMonthlyPct(uid, ym))
ComputeMonthlyPct(dayDocs, ym) ==
  LET acc == CountDocs(dayDocs, <<ym>>) IN
    Outcome(acc, MathRoundPct(acc.presentDays, acc.totalWorkingDays), None, NoDate, NoDate)

\* Math.round(await computeSessionPct(uid))
ComputeSessionPct(chosen, sessions, dayDocs, day0) ==
  LET w == GetSessionWindow(chosen, sessions, dayDocs, day0)
      months == YmRangeInclusive(w.startDate[1], w.startDate[2], w.endDate[1], w.endDate[2])
      acc == CountDocs(dayDocs, months)
  IN Outcome(acc, MathRoundPct(acc.presentDays, acc.totalWorkingDays), w.sessionUsed,
             w.startDate, w.endDate)

\* ------------------------------------------ the percentage functions applied
\* the dates that hold a record, today, the months asked for and the session
\* names said: the turn of the year, a leap February, days after today
MarkedDates == {<<2023, 12, 30>>, <<2024, 1, 1>>, <<2024, 1, 31>>, <<2024, 2, 29>>}
Todays == {<<2024, 1, 10>>, <<2024, 2, 15>>}
YearMonths == {<<2023, 12>>, <<2024, 1>>, <<2024, 2>>}
DayStatuses == {None, "present", "absent", "holiday", "not-enrolled"}
MaxMarked == 2       \* dates that hold a record
Markings == {marks \in [MarkedDates -> DayStatuses] :
               Cardinality({d \in MarkedDates : marks[d] # None}) <= MaxMarked}
SaidNames == {None, "summer 2024", "winterx0a1", "autumn"}

\* the attendance document of alexa.js that holds the statuses given
UserDataOf(marks, sessions, weeklyDaysOff) ==
  LET holidays == SortDates({d \in DOMAIN marks : marks[d] = "holiday"})
  IN [exists |-> TRUE,
      records |-> [d \in DOMAIN marks |-> IF marks[d] = "present" THEN "true"
                                          ELSE IF marks[d] = "absent" THEN "false"
                                          ELSE None],
      holidays |-> [i \in 1..Len(holidays) |-> [date |-> holidays[i], name |-> "Holiday"]],
      notEnrolled |-> SortDates({d \in DOMAIN marks : marks[d] = "not-enrolled"}),
      sessions |-> sessions,
      weeklyDaysOff |-> weeklyDaysOff]

\* the later session, from 2024-01-31, and the earlier one over the new year
SessionA(endDate, selected) ==
  DatedSession("Summer 2024", "summer20k3f9", <<2024, 1, 31>>, endDate, 2, selected)
SessionB(selected) ==
  DatedSession("winter", "winterx0a1", <<2023, 12, 30>>, <<2024, 1, 1>>, 1, selected)

\* the arrays saveSession leaves: newest first, at most one session selected
SessionLists ==
  {<<>>}
  \cup {<<SessionA(e, s)>> : e \in {NoDate, <<2024, 2, 29>>}, s \in BOOLEAN}
  \cup {<<SessionA(e, sel = "A"), SessionB(sel = "B")>> :
          e \in {NoDate, <<2024, 2, 29>>}, sel \in {"A", "B", None}}

NoBook == [today |-> NoDate, userData |-> NoAttDoc, dayDocs |-> <<>>, chosen |-> NoSession]
NoOutcome == Outcome(NoCount, 0, None, NoDate, NoDate)
NoCalc == [op |-> None, yearMonth |-> <<0, 0>>, sessionName |-> None, out |-> NoOutcome]

NoCalcs ==
  /\ book = NoBook
  /\ calc = NoCalc

\* a function is applied once to the stored data: it writes nothing, and a
\* second application returns what the first returned
Applied(op, yearMonth, sessionName, out) ==
  /\ calc = NoCalc
  /\ calc' = [op |-> op, yearMonth |-> yearMonth, sessionName |-> sessionName, out |-> out]
  /\ UNCHANGED <<days, clock, txvars, racevars, rev, today, db, attrs, sess, turn, book>>

\* MonthlyAttendanceIntentHandler of alexa.js, from calculateMonthlyAttendance on
MonthlyAttendance(yearMonth) ==
  Applied("calculateMonthlyAttendance", yearMonth, None,
          LET r == CalculateMonthlyAttendance(book.userData, book.today, yearMonth) IN
            Outcome(r, r.percentage, None, NoDate, NoDate))

\* SessionAttendanceIntentHandler and GetAttendancePercentageIntentHandler of
\* alexa.js, from calculateSessionAttendance on
SessionAttendance(sessionName) ==
  Applied("calculateSessionAttendance", <<0, 0>>, sessionName,
          CalculateSessionAttendance(book.userData, book.today, sessionName))

\* SessionAttendanceIntentHandler of part_002 (preset sessions)
PresetSessionAttendance(sessionName) ==
  Applied("calculateSessionAttendancePreset", <<0, 0>>, sessionName,
          CalculateSessionAttendancePreset(book.userData, book.today, sessionName))

\* MonthlyAttendanceIntentHandler of part_002 (day documents)
MonthlyAttendanceDays(ym) ==
  Applied("computeMonthlyPct", ym, None,
          IF EnsureSessionSelectedOrPrompt(book.chosen, book.userData.sessions)
          THEN ComputeMonthlyPct(book.dayDocs, ym)
          ELSE [NoOutcome EXCEPT !.prompt = TRUE])

\* computeSessionPct(uid) of part_002 (day documents)
SessionPct ==
  Applied("computeSessionPct", <<0, 0>>, None,
          ComputeSessionPct(book.chosen, book.userData.sessions, book.dayDocs, book.today))

\* SessionAttendanceIntentHandler of part_002 (day documents)
SessionAttendanceDays ==
  Applied("SessionAttendanceIntent", <<0, 0>>, None,
          IF EnsureSessionSelectedOrPrompt(book.chosen, book.userData.sessions)
          THEN ComputeSessionPct(book.chosen, book.userData.sessions, book.dayDocs,
                                 book.today)
          ELSE [NoOutcome EXCEPT !.prompt = TRUE])

\* ----------------------------- alexa.js: the month of a conversation
\* getFormattedDate() on the days of the conversation: day 1 is Monday 2024-06-03
FormattedDate(day) == <<2024, 6, 2 + day>>

\* getYearMonthFromDate() on the days of the conversation
YearMonthFromDate(day) == <<FormattedDate(day)[1], FormattedDate(day)[2]>>

\* the attendance document read by getUserData, its dates as getFormattedDate
\* writes them
FormattedUserData(userData) ==
  [exists |-> userData.exists,
   records |-> [dateStr \in {FormattedDate(d) : d \in Dates} |->
                  userData.records[dateStr[3] - 2]],
   holidays |-> [i \in 1..Len(userData.holidays) |->
                   [date |-> FormattedDate(userData.holidays[i].date),
                    name |-> userData.holidays[i].name]],
   notEnrolled |-> [i \in 1..Len(userData.notEnrolled) |->
                      FormattedDate(userData.notEnrolled[i])],
   sessions |-> userData.sessions,
   weeklyDaysOff |-> userData.weeklyDaysOff]

\* MonthlyAttendanceIntentHandler with no month slot, a linked account and the
\* percentage of calculateMonthlyAttendance as spoken
MonthlyAttendanceSpoken(fetch) ==
  /\ rev = "alexa" /\ sess = "open"
  /\ LET p == ResolveUser(db, TRUE, fetch)
         r == CalculateMonthlyAttendance(FormattedUserData(GetUserData(p.db, p.uid)),
                                         FormattedDate(today), YearMonthFromDate(today))
     IN /\ db' = p.db
        /\ calc' = [op |-> "calculateMonthlyAttendance",
                    yearMonth |-> YearMonthFromDate(today),
                    sessionName |-> None,
                    out |-> Outcome(r, r.percentage, None, NoDate, NoDate)]
        /\ Reply("MonthlyAttendanceIntent", "percentage", p.uid, None, None, FALSE)
  /\ UNCHANGED <<days, clock, txvars, racevars, rev, book, today, attrs>>

\* ----------------------------- alexa.js: creating a session by voice
\* values of the date slot: two calendar dates and 'June 2024', a month with no
\* day ('2024-06'), written with day 0; NoDate is an empty slot
DateValues == {<<2024, 6, 1>>, <<2024, 8, 31>>, <<2024, 6, 0>>}

\* CreateSessionIntentHandler; setAsPreset is the slot value read as a flag
CreateSessionIntent(setAsPreset, token, fetch) ==
  /\ rev = "alexa" /\ sess = "open"
  /\ IF ~token
     THEN /\ Reply("CreateSessionIntent", "link", None, None, None, FALSE)
          /\ UNCHANGED <<db, attrs>>
     ELSE LET p == ResolveUser(db, TRUE, fetch)
          IN /\ db' = p.db
             /\ attrs' = [attrs EXCEPT !.inSessionCreation = TRUE,
                                       !.sessionCreationStep = "name",
                                       !.shouldSetAsPreset = setAsPreset]
             /\ Reply("CreateSessionIntent", "askSessionName", p.uid, None, None, TRUE)
  /\ UNCHANGED <<days, clock, txvars, racevars, rev, book, calc, today>>

\* CreateSessionWithNameIntentHandler; sessionName is the slot value or None
CreateSessionWithNameIntent(sessionName, setAsPreset, token, fetch) ==
  /\ rev = "alexa" /\ sess = "open"
  /\ IF ~token
     THEN /\ Reply("CreateSessionWithNameIntent", "link", None, None, None, FALSE)
          /\ UNCHANGED <<db, attrs>>
     ELSE IF sessionName = None
     THEN /\ Reply("CreateSessionWithNameIntent", "askSessionName", None, None, None, TRUE)
          /\ UNCHANGED <<db, attrs>>
     ELSE LET p == ResolveUser(db, TRUE, fetch)
          IN /\ db' = p.db
             /\ attrs' = [attrs EXCEPT !.inSessionCreation = TRUE,
                                       !.sessionCreationStep = "startDate",
                                       !.pendingSessionName = sessionName,
                                       !.shouldSetAsPreset = setAsPreset]
             /\ Reply("CreateSessionWithNameIntent", "askStartDate", p.uid, None, None, TRUE)
  /\ UNCHANGED <<days, clock, txvars, racevars, rev, book, calc, today>>

\* the five deletes that follow saveSession in DateIntentHandler
EndSessionCreationKeepingName(a) ==
  [a EXCEPT !.inSessionCreation = FALSE, !.sessionCreationStep = None,
            !.pendingStartDate = NoDate, !.shouldSetAsPreset = FALSE]

EndSessionCreation(a) ==
  [a EXCEPT !.inSessionCreation = FALSE, !.sessionCreationStep = None,
            !.pendingSessionName = None, !.pendingStartDate = NoDate,
            !.shouldSetAsPreset = FALSE]

\* DateIntentHandler: getUserKey runs first and without a token check; at the
\* step endDate it calls saveSession with the pending name and start date and
\* the slot value as the end date; suffix is what generateSessionCode draws
DateIntent(dateValue, suffix, token, fetch) ==
  /\ rev = "alexa" /\ sess = "open"
  /\ LET r == GetUserKey(db, token, fetch)
     IN IF attrs.inSessionCreation /\ attrs.sessionCreationStep = "startDate"
        THEN /\ db' = r.db
             /\ IF dateValue # NoDate
                THEN /\ attrs' = [attrs EXCEPT !.pendingStartDate = dateValue,
                                               !.sessionCreationStep = "endDate"]
                     /\ Reply("DateIntent", "askEndDate", r.uid, None, None, TRUE)
                ELSE /\ UNCHANGED attrs
                     /\ Reply("DateIntent", "askStartDate", r.uid, None, None, TRUE)
        ELSE IF attrs.inSessionCreation /\ attrs.sessionCreationStep = "endDate"
        THEN IF dateValue # NoDate
             THEN LET sessionData ==
                        DatedSession(attrs.pendingSessionName,
                                     GenerateSessionCode(attrs.pendingSessionName, suffix),
                                     attrs.pendingStartDate, dateValue, clock,
                                     attrs.shouldSetAsPreset)
                  IN /\ db' = UpdateUserData(
                                r.db, r.uid,
                                [sessions |-> SaveSessionData(GetUserData(r.db, r.uid).sessions,
                                                              sessionData,
                                                              attrs.shouldSetAsPreset)],
                                {"sessions"})
                     /\ attrs' = EndSessionCreation(attrs)
                     /\ Reply("DateIntent", "created", r.uid, None, None, FALSE)
             ELSE /\ db' = r.db
                  /\ UNCHANGED attrs
                  /\ Reply("DateIntent", "askEndDate", r.uid, None, None, TRUE)
        ELSE /\ db' = r.db
             /\ UNCHANGED attrs
             /\ IF dateValue # NoDate
                THEN Reply("DateIntent", "heard", r.uid, None, None, TRUE)
                ELSE Reply("DateIntent", "unsure", r.uid, None, None, FALSE)
  /\ UNCHANGED <<days, clock, txvars, racevars, rev, book, calc, today>>

TxInit ==
  /\ days = [d \in Dates |-> NoDoc]
  /\ clock = 0
  /\ txpc = [c \in Calls |-> "idle"]
  /\ txArg = [c \in Calls |-> NoArg]
  /\ txSnap = [c \in Calls |-> NoDoc]
  /\ txAttempt = [c \in Calls |-> 0]
  /\ txRes = [c \in Calls |-> NoRes]
  /\ txAlone = [c \in Calls |-> TRUE]
  /\ txFound = [c \in Calls |-> NoDoc]
  /\ txFaulted = [c \in Calls |-> FALSE]

\* the store before the skill has served the user: no Alexa profile, no mapping;
\* the web application may have registered the Google user, with or without a
\* key, and may have written that user's attendance document
EmptyStore ==
  [google |-> [exists |-> FALSE, key |-> None],
   alexaProfile |-> NoProfile,
   mapping |-> None,
   att |-> [k \in Keys |-> NoAttDoc],
   panel |-> [weeklyDaysOff |-> {}]]

\* the Google user registered with a key, the attendance document still under
\* the uid, the last day of the calendar a weekly day off
GoogleStore ==
  [EmptyStore EXCEPT !.google = [exists |-> TRUE, key |-> GoogleKey],
                     !.att[GoogleUid] = [NewAttDoc EXCEPT !.weeklyDaysOff = {MaxDay}]]

InitialStores ==
  {EmptyStore,
   [EmptyStore EXCEPT !.google = [exists |-> TRUE, key |-> None]],
   GoogleStore,
   [EmptyStore EXCEPT !.panel = [weeklyDaysOff |-> {MaxDay}]]}

ConvIdle ==
  /\ today = 1
  /\ attrs = NoAttrs
  /\ sess = "open"
  /\ turn = NoTurn

NoRace ==
  /\ req = [c \in Calls |-> NoReq]
  /\ svc = [c \in Calls |-> NoSvc]
  /\ made = 0

\* concurrent setStatusIfEmpty calls of part_002, no conversation
InitTx ==
  /\ TxInit
  /\ rev = "part_002"
  /\ db = EmptyStore
  /\ ConvIdle
  /\ NoRace
  /\ NoCalcs

TxNext ==
  \E c \in Calls :
    \/ SetStatusIfEmptyCall(c)
    \/ TxGet(c)
    \/ TxSet(c)
    \/ TxError(c)

SpecTx == InitTx /\ [][TxNext]_vars

\* one user's requests, handled one at a time, by either revision of the skill
InitConv ==
  /\ TxInit
  /\ rev \in {"alexa", "part_002"}
  /\ db \in InitialStores
  /\ rev = "part_002" => ~db.google.exists
  /\ rev = "alexa" => db.panel.weeklyDaysOff = {}
  /\ ConvIdle
  /\ NoRace
  /\ NoCalcs

ConvNext ==
  \/ \E token \in BOOLEAN, fetch \in {"match", "other"} : LaunchRequest(token, fetch)
  \/ \E status \in {"present", "absent"}, token \in BOOLEAN, fetch \in {"match", "other"},
        fail \in BOOLEAN : MarkIntent(status, token, fetch, fail)
  \/ \E holidayName \in HolidayNames \cup {None}, token \in BOOLEAN,
        fetch \in {"match", "other"}, fail \in BOOLEAN :
       MarkHolidayIntent(holidayName, token, fetch, fail)
  \/ \E token \in BOOLEAN, fetch \in {"match", "other"} :
       MonthlyAttendanceIntent(token, fetch)
  \/ \E token \in BOOLEAN, fetch \in {"match", "other"}, fail \in BOOLEAN :
       YesIntent(token, fetch, fail)
  \/ NoIntent
  \/ HelpIntent
  \/ FallbackIntent
  \/ CancelAndStopIntent
  \/ \E status \in MarkStatuses, holidayName \in HolidayNames \cup {None},
        token \in BOOLEAN, fail \in BOOLEAN :
       MarkIntentDays(status, holidayName, token, fail)
  \/ \E token \in BOOLEAN, fail \in BOOLEAN : YesIntentDays(token, fail)
  \/ NoIntentDays
  \/ HelpIntentDays
  \/ SessionEnded
  \/ NextDay

SpecConv == InitConv /\ [][ConvNext]_vars

\* the Alexa user already mapped to the Google user: getUserKey writes nothing
MappedStore == CreateAlexaToGoogleMapping(GoogleStore, GoogleKey)

\* mark requests of one user that overlap, alexa.js
InitRace ==
  /\ TxInit
  /\ rev = "alexa"
  /\ db = [MappedStore EXCEPT !.att[GoogleUid].weeklyDaysOff = {}]
  /\ ConvIdle
  /\ NoRace
  /\ NoCalcs

RaceNext ==
  \E c \in Calls :
    \/ \E status \in MarkStatuses, fetch \in {"match", "other"} : MarkBegin(c, status, fetch)
    \/ MarkCheck(c)
    \/ SetDayStatusRead(c)
    \/ SetDayStatusWrite(c)

SpecRace == InitRace /\ [][RaceNext]_vars

\* the profile and the attendance document of an Alexa user without a mapping
StandaloneStore == GetOrCreateAlexaUser(EmptyStore)

\* the dates of a set, the earliest first
RECURSIVE InOrder(_)
InOrder(ds) ==
  IF ds = {} THEN <<>>
  ELSE LET d == CHOOSE d \in ds : \A e \in ds : d <= e IN <<d>> \o InOrder(ds \ {d})

\* the attendance document in which setDayStatus has given the dates the
\* statuses of marks, one date after the other
StoredDays(marks) ==
  LET holidays == InOrder({d \in Dates : marks[d] = "holiday"})
  IN [NewAttDoc EXCEPT
        !.records = [d \in Dates |-> IF marks[d] = "present" THEN "true"
                                     ELSE IF marks[d] = "absent" THEN "false" ELSE None],
        !.holidays = [i \in 1..Len(holidays) |-> [date |-> holidays[i], name |-> "Diwali"]],
        !.notEnrolled = InOrder({d \in Dates : marks[d] = "not-enrolled"})]

\* setDayStatus calls of one user, one after the other or overlapping, on an
\* attendance document that holds any status on any date
InitDay ==
  /\ TxInit
  /\ rev = "alexa"
  /\ \E marks \in [Dates -> DayStatuses] :
       db = [StandaloneStore EXCEPT !.att[AlexaId] = StoredDays(marks)]
  /\ ConvIdle
  /\ NoRace
  /\ NoCalcs

DayNext ==
  \E c \in Calls :
    \/ \E date \in Dates, status \in DayStatuses \ {None},
          holidayName \in HolidayNames \cup {None} :
         SetDayStatusCall(c, date, status, holidayName)
    \/ SetDayStatusRead(c)
    \/ SetDayStatusWrite(c)

SpecDay == InitDay /\ [][DayNext]_vars

\* session-registry calls of one user, in sequence or overlapping
InitSessions ==
  /\ TxInit
  /\ rev \in {"alexa", "part_002"}
  /\ db = StandaloneStore
  /\ ConvIdle
  /\ NoRace
  /\ NoCalcs

SessionsNext ==
  \/ \E c \in Calls :
       \/ \E name \in SessionNames, suffix \in Suffixes, setAsPreset \in BOOLEAN :
            SaveSessionRead(c, name, suffix, setAsPreset)
       \/ \E ident \in SessionNames : SetAlexaPresetSessionRead(c, ident)
       \/ ClearAlexaPresetSessionRead(c)
       \/ UpdateSessions(c)
  \/ Tick

SpecSessions == InitSessions /\ [][SessionsNext]_vars

\* the percentage functions applied to one user's stored data: any status on
\* the marked dates, any of the session arrays, Thursday a weekly day off or not
InitCalc ==
  /\ TxInit
  /\ rev = "alexa"
  /\ db = EmptyStore
  /\ ConvIdle
  /\ NoRace
  /\ calc = NoCalc
  /\ \E marks \in Markings, sessions \in SessionLists,
        weeklyDaysOff \in {{}, {4}}, day0 \in Todays :
       book = [today |-> day0,
               userData |-> UserDataOf(marks, sessions, weeklyDaysOff),
               dayDocs |-> marks,
               chosen |-> [FindSelected(sessions) EXCEPT !.isSelected = FALSE]]

CalcNext ==
  \/ \E yearMonth \in YearMonths : MonthlyAttendance(yearMonth)
  \/ \E sessionName \in SaidNames : SessionAttendance(sessionName)
  \/ \E sessionName \in SaidNames : PresetSessionAttendance(sessionName)
  \/ \E ym \in YearMonths : MonthlyAttendanceDays(ym)
  \/ SessionPct
  \/ SessionAttendanceDays

SpecCalc == InitCalc /\ [][CalcNext]_vars

\* a user with no stored data and no weekly day off marks Monday 2024-06-03
\* through a linked account and asks for the month; the Google user may be
\* registered by the web application or not
InitScenario ==
  /\ TxInit
  /\ rev = "alexa"
  /\ db \in {EmptyStore, [GoogleStore EXCEPT !.att[GoogleUid].weeklyDaysOff = {}]}
  /\ ConvIdle
  /\ NoRace
  /\ NoCalcs

ScenarioNext ==
  \/ \E fetch \in {"match", "other"} : LaunchRequest(TRUE, fetch)
  \/ \E status \in {"present", "absent"}, fetch \in {"match", "other"} :
       MarkIntent(status, TRUE, fetch, FALSE)
  \/ \E fetch \in {"match", "other"} : YesIntent(TRUE, fetch, FALSE)
  \/ NoIntent
  \/ \E fetch \in {"match", "other"} : MonthlyAttendanceSpoken(fetch)
  \/ SessionEnded

SpecScenario == InitScenario /\ [][ScenarioNext]_vars


\* setAlexaPresetSession and clearAlexaPresetSession on a stored session list
InitPreset ==
  /\ TxInit
  /\ rev \in {"alexa", "part_002"}
  /\ \E list \in StoredLists :
       db = [StandaloneStore EXCEPT !.att[AlexaId].sessions = StoredList(list)]
  /\ ConvIdle
  /\ NoRace
  /\ NoCalcs

PresetNext ==
  \E c \in Calls :
    \/ \E ident \in Identifiers : SetAlexaPresetSessionRead(c, ident)
    \/ ClearAlexaPresetSessionRead(c)
    \/ UpdateSessions(c)

SpecPreset == InitPreset /\ [][PresetNext]_vars


\* one user creates sessions by voice, through a linked account; the user is
\* new, or mapped to a Google account
InitCreate ==
  /\ TxInit
  /\ rev = "alexa"
  /\ db \in {EmptyStore, [MappedStore EXCEPT !.att[GoogleUid].weeklyDaysOff = {}]}
  /\ ConvIdle
  /\ NoRace
  /\ NoCalcs

CreateNext ==
  \/ \E setAsPreset \in BOOLEAN, fetch \in {"match", "other"} :
       CreateSessionIntent(setAsPreset, TRUE, fetch)
  \/ \E sessionName \in {"Summer 2024", None}, setAsPreset \in BOOLEAN,
        fetch \in {"match", "other"} :
       CreateSessionWithNameIntent(sessionName, setAsPreset, TRUE, fetch)
  \/ \E dateValue \in DateValues \cup {NoDate}, fetch \in {"match", "other"} :
       DateIntent(dateValue, "k3f9", TRUE, fetch)
  \/ \E fetch \in {"match", "other"} : YesIntent(TRUE, fetch, FALSE)
  \/ NoIntent
  \/ SessionEnded

SpecCreate == InitCreate /\ [][CreateNext]_vars

\* a user mapped to a Google account selects among the stored sessions, by
\* voice in alexa.js and by calls of setAlexaPresetSession in both revisions
InitSelect ==
  /\ TxInit
  /\ rev \in {"alexa", "part_002"}
  /\ \E list \in AlikeLists :
       db = [MappedStore EXCEPT !.att[GoogleUid].weeklyDaysOff = {},
                                !.att[GoogleUid].sessions = StoredList(list)]
  /\ ConvIdle
  /\ NoRace
  /\ NoCalcs

SelectNext ==
  \/ \E sessionName \in SaidSessions \cup {None}, token \in BOOLEAN,
        fetch \in {"match", "other"} : SetAlexaPresetIntent(sessionName, token, fetch)
  \/ \E sessionName \in SaidSessions \cup {None}, token \in BOOLEAN,
        fetch \in {"match", "other"} : SelectSessionIntent(sessionName, token, fetch)
  \/ \E sessionIdentifier \in SaidSessions : SetAlexaPresetSessionCall(sessionIdentifier)
  \/ SessionEnded

SpecSelect == InitSelect /\ [][SelectNext]_vars

\* a user of alexa.js whose requests carry an access token when they mark a
\* day and may carry none otherwise: the account link is given and taken away
\* during the conversation
InitUnlinked ==
  /\ TxInit
  /\ rev = "alexa"
  /\ db \in {EmptyStore, [GoogleStore EXCEPT !.att[GoogleUid].weeklyDaysOff = {}]}
  /\ ConvIdle
  /\ NoRace
  /\ NoCalcs

UnlinkedNext ==
  \/ \E status \in {"present", "absent"}, token \in BOOLEAN :
       MarkIntent(status, token, "match", FALSE)
  \/ \E holidayName \in HolidayNames \cup {None} :
       MarkHolidayIntent(holidayName, FALSE, "match", FALSE)
  \/ LaunchRequest(FALSE, "match")
  \/ MonthlyAttendanceIntent(FALSE, "match")
  \/ YesIntent(FALSE, "match", FALSE)
  \/ NoIntent
  \/ HelpIntent
  \/ FallbackIntent
  \/ CancelAndStopIntent
  \/ \E setAsPreset \in BOOLEAN : CreateSessionIntent(setAsPreset, FALSE, "match")
  \/ \E sessionName \in {"Summer 2024", None}, setAsPreset \in BOOLEAN :
       CreateSessionWithNameIntent(sessionName, setAsPreset, FALSE, "match")
  \/ \E dateValue \in DateValues \cup {NoDate} : DateIntent(dateValue, "k3f9", FALSE, "match")
  \/ \E sessionName \in SaidSessions \cup {None} :
       SetAlexaPresetIntent(sessionName, FALSE, "match")
  \/ \E sessionName \in SaidSessions \cup {None} :
       SelectSessionIntent(sessionName, FALSE, "match")
  \/ SessionEnded

SpecUnlinked == InitUnlinked /\ [][UnlinkedNext]_vars

\* ------------------------------------------------------------ C1, C2
AlreadySet(status) == [ok |-> FALSE, reason |-> "already_set", existing |-> status]
Ok == [ok |-> TRUE, reason |-> None, existing |-> None]

TxOn(d) == {c \in Calls : txpc[c] # "idle" /\ txArg[c].date = d}
TxWinners(d) == {c \in TxOn(d) : txpc[c] = "done" /\ txRes[c] = Ok}

\* C1: of the setStatusIfEmpty calls made on a (uid, date) that had no record,
\* however they interleave, at most one returns ok; the stored status is the
\* winner's; and once all of them have returned without a store failure,
\* exactly one has returned ok and every other one already_set with the
\* winner's status.
C1_MutualExclusion ==
  \A d \in Dates :
    /\ Cardinality(TxWinners(d)) <= 1
    /\ \A w \in TxWinners(d) :
         /\ days[d].status = txArg[w].status
         /\ days[d].holidayName = txArg[w].holidayName
    /\ (/\ TxOn(d) # {}
        /\ \A c \in TxOn(d) : txpc[c] = "done" /\ ~txFaulted[c])
       => /\ Cardinality(TxWinners(d)) = 1
          /\ \A c \in TxOn(d) \ TxWinners(d) : txRes[c] = AlreadySet(days[d].status)

\* two calls with different statuses raced on one date (both had read the
\* empty day before either committed), one won and the other was told already_set
C1_Witness ==
  \E a, b \in Calls :
    /\ a # b /\ txpc[a] = "done" /\ txpc[b] = "done"
    /\ txArg[a].date = txArg[b].date /\ txArg[a].status # txArg[b].status
    /\ txRes[a] = Ok /\ txRes[b] = AlreadySet(txArg[a].status)
    /\ txAttempt[b] = 2 /\ ~txAlone[a] /\ ~txAlone[b]

\* C2: setStatusIfEmpty(uid, d, 'present') called on an empty day and, after it
\* returned, called again: the first call returns ok, the second returns
\* already_set with existing = present, and the day document is the one the
\* first call wrote (status present, createdAt unchanged).
C2_Idempotence ==
  \A a, b \in Calls :
    (/\ a # b /\ txpc[a] = "done" /\ txpc[b] = "done"
     /\ txArg[a].date = txArg[b].date
     /\ txArg[a].status = "present" /\ txArg[b].status = "present"
     /\ ~txFaulted[a] /\ ~txFaulted[b]
     /\ txAlone[a] /\ txFound[a] = NoDoc
     /\ txFound[b] # NoDoc)
    => /\ txRes[a] = Ok
       /\ txRes[b] = AlreadySet("present")
       /\ days[txArg[a].date] = txFound[b]
       /\ days[txArg[a].date].status = "present"

C2_Witness ==
  \E a, b \in Calls :
    /\ a # b /\ txpc[a] = "done" /\ txpc[b] = "done"
    /\ txArg[a].date = txArg[b].date
    /\ txArg[a].status = "present" /\ txArg[b].status = "present"
    /\ ~txFaulted[a] /\ ~txFaulted[b]
    /\ txAlone[a] /\ txFound[a] = NoDoc /\ txFound[b] # NoDoc
    /\ txRes[b] = AlreadySet("present")

\* ------------------------------------------------------------ C3
\* C3: two mark requests of one uid that overlap on the same unmarked day with
\* different statuses do not both succeed: when both have answered, exactly one
\* has answered 'Successfully marked' and the other has found the day set.
C3_OneWriteWins ==
  \A a, b \in Calls :
    ( /\ a # b
      /\ req[a].pc = "done" /\ req[b].pc = "done"
      /\ ~req[a].alone /\ ~req[b].alone
      /\ req[a].uid = req[b].uid
      /\ req[a].status # req[b].status
      /\ req[a].resp = "marked" )
    => req[b].resp \in {"already", "confirm"}

\* ------------------------------------------------------------ C4 .. C10
MarkIntents == {"MarkPresentIntent", "MarkAbsentIntent", "MarkHolidayIntent"}

\* the status and the holiday name of (uid, date) as the deployed revision reads them
StatusOn(d, ds, uid, date) ==
  IF rev = "alexa" THEN GetDayStatus(d, uid, date).status ELSE ds[date].status
NameOn(d, ds, uid, date) ==
  IF rev = "alexa" THEN GetDayStatus(d, uid, date).name ELSE ds[date].holidayName

\* a request has been handled in this step
Handled(intents) == turn'.seq # turn.seq /\ turn'.intent \in intents

\* a Yes that applied the pending change of date
ConfirmedOverwrite(date) ==
  /\ Handled({"AMAZON.YesIntent"})
  /\ turn'.resp = "changed"
  /\ attrs.pendingStatusChange.date = date

\* C4: a day that is marked keeps its status in every step that is not a
\* confirmed overwrite of that day, in every attendance document and every day
\* document; no request removes or resets stored records, holidays or
\* notEnrolled entries.
C4_MarkedDayKept ==
  [][ /\ \A k \in Keys, date \in Dates :
           DayStatusOf(db.att[k], date).status # None
           => \/ DayStatusOf(db'.att[k], date).status = DayStatusOf(db.att[k], date).status
              \/ ConfirmedOverwrite(date)
      /\ \A date \in Dates :
           DocExists(days[date])
           => \/ days'[date].status = days[date].status
              \/ ConfirmedOverwrite(date) ]_vars

\* C5: at most one session of the stored session list is flagged selected.
C5_SingleSelection ==
  LET sessions == GetUserData(db, AlexaId).sessions
  IN Cardinality({i \in 1..Len(sessions) : sessions[i].isSelected}) <= 1

Unrelated ==
  {"AMAZON.HelpIntent", "AMAZON.FallbackIntent", "MonthlyAttendanceIntent"}

\* C6: with a pending change, a turn that is neither Yes nor No (Help, Fallback,
\* a percentage query) writes no day status and, when the session goes on after
\* it, leaves no pending change in it; and a Yes that directly follows such a
\* turn overwrites nothing.
C6_UnrelatedTurnDiscards ==
  [][ /\ (attrs.pendingStatusChange # NoPending /\ Handled(Unrelated))
         => /\ sess' = "open" => attrs'.pendingStatusChange = NoPending
            /\ days' = days
            /\ \A k \in Keys, date \in Dates :
                 DayStatusOf(db'.att[k], date) = DayStatusOf(db.att[k], date)
      /\ (turn.intent \in Unrelated /\ Handled({"AMAZON.YesIntent"}))
         => turn'.resp # "changed" ]_vars

\* C7: in alexa.js, a mark intent for X that finds today recorded with another
\* status Y writes no day status, stores the pending change {date: today,
\* newStatus: X, oldStatus: Y, holidayName for a holiday} and asks the yes/no
\* question, keeping the session open.
C7_ConflictAsksConfirmation ==
  [][ ( /\ rev = "alexa"
        /\ Handled(MarkIntents)
        /\ turn'.existing \notin {None, turn'.status} )
      => /\ turn'.resp = "confirm"
         /\ sess' = "open"
         /\ attrs'.pendingStatusChange.date = today
         /\ attrs'.pendingStatusChange.newStatus = turn'.status
         /\ attrs'.pendingStatusChange.oldStatus = turn'.existing
         /\ IF turn'.status = "holiday"
            THEN attrs'.pendingStatusChange.holidayName \in HolidayNames
            ELSE attrs'.pendingStatusChange.holidayName = None
         /\ \A date \in Dates :
              /\ GetDayStatus(db', turn'.uid, date) = GetDayStatus(db, turn'.uid, date)
         /\ GetDayStatus(db', turn'.uid, today).status = turn'.existing ]_vars

C7_Witness ==
  /\ rev = "alexa"
  /\ turn.intent = "MarkHolidayIntent"
  /\ turn.resp = "confirm"
  /\ turn.existing = "present"
  /\ attrs.pendingStatusChange = PendingStatusChange(today, "holiday", "present", "Diwali")
  /\ GetDayStatus(db, turn.uid, today).status = "present"
  /\ sess = "open"

\* C8: a Yes that answers a pending change {date, newStatus, holidayName} and
\* reports the change leaves (uid, date) with status newStatus (and the holiday
\* name for a holiday), leaves every other date of the uid as it was, and leaves
\* no pending change.
C8_YesOverwrites ==
  [][ ( /\ attrs.pendingStatusChange # NoPending
        /\ Handled({"AMAZON.YesIntent"})
        /\ turn'.resp = "changed" )
      => LET pending == attrs.pendingStatusChange
         IN /\ StatusOn(db', days', turn'.uid, pending.date) = pending.newStatus
            /\ pending.newStatus = "holiday"
               => NameOn(db', days', turn'.uid, pending.date) = pending.holidayName
            /\ \A date \in Dates \ {pending.date} :
                 StatusOn(db', days', turn'.uid, date) = StatusOn(db, days, turn'.uid, date)
            /\ attrs'.pendingStatusChange = NoPending ]_vars

\* C9: with a pending change, a No turn writes nothing to the store, so the day
\* keeps its old status, and no pending change remains in the attributes.
C9_NoKeeps ==
  [][ (attrs.pendingStatusChange # NoPending /\ Handled({"AMAZON.NoIntent"}))
      => /\ db' = db
         /\ days' = days
         /\ attrs'.pendingStatusChange = NoPending
         /\ turn'.resp = "kept" ]_vars

C9_Witness ==
  /\ turn.intent = "AMAZON.NoIntent"
  /\ turn.resp = "kept"
  /\ turn.status = "absent"
  /\ attrs.pendingStatusChange = NoPending
  /\ IF rev = "alexa"
     THEN \E k \in Keys : DayStatusOf(db.att[k], today).status = "present"
     ELSE days[today].status = "present"

\* C10: a mark intent for X that finds today recorded with X writes no day
\* status, creates no pending change, and answers that the day is already set.
C10_SameStatusNoOp ==
  [][ ( /\ Handled(MarkIntents)
        /\ turn'.existing # None
        /\ turn'.existing = turn'.status )
      => /\ turn'.resp = "already"
         /\ attrs' = attrs
         /\ days' = days
         /\ \A date \in Dates :
              GetDayStatus(db', turn'.uid, date) = GetDayStatus(db, turn'.uid, date) ]_vars

C10_Witness ==
  /\ turn.intent = "MarkPresentIntent"
  /\ turn.resp = "already"
  /\ turn.existing = "present"
  /\ attrs.pendingStatusChange = NoPending
  /\ StatusOn(db, days, turn.uid, today) = "present"

\* ------------------------------------------------------------ C11 .. C16
SessionOps == {"calculateSessionAttendance", "calculateSessionAttendancePreset"}
StoredSessions == book.userData.sessions
NamedSession == FindNamed(StoredSessions, calc.sessionName)
SelectedSession == FindSelected(StoredSessions)
NewestSession ==
  StoredSessions[CHOOSE i \in 1..Len(StoredSessions) :
                   \A j \in 1..Len(StoredSessions) :
                     StoredSessions[j].createdAt <= StoredSessions[i].createdAt]
Last(seq) == seq[Len(seq)]

\* C11: calculateSessionAttendance called with a session name that matches no
\* session of the user, by code or by case-insensitive name, resolves no range
\* and returns no percentage over the selected session, another session or a
\* default window
C11_UnknownNameFails ==
  (/\ calc.op = "calculateSessionAttendance"
   /\ calc.sessionName # None
   /\ NamedSession = NoSession)
  => /\ calc.out.start = NoDate
     /\ calc.out.end = NoDate
     /\ calc.out.visited = <<>>

\* C12: when the name given matches a session and a different session is the
\* selected (preset) one, the percentage is aggregated over the range of the
\* session named
C12_NamedBeforeSelected ==
  (/\ calc.op \in SessionOps
   /\ calc.sessionName # None
   /\ NamedSession # NoSession
   /\ SelectedSession # NoSession
   /\ NamedSession # SelectedSession)
  => /\ calc.out.start = NamedSession.startDate
     /\ calc.out.sessionName = NamedSession.name

\* C13: with no session name, no selected session and at least one session
\* created, a session-percentage request is answered with the percentage over
\* the range of the most recently created session, and not with a prompt
C13_NewestSessionUsed ==
  (/\ calc.op \in {"calculateSessionAttendance", "SessionAttendanceIntent"}
   /\ calc.sessionName = None
   /\ StoredSessions # <<>>
   /\ SelectedSession = NoSession)
  => /\ ~calc.out.prompt
     /\ calc.out.start = NewestSession.startDate

\* C14: with no session and at least one day recorded, the window resolved is
\* [earliest recorded day, latest recorded day]
C14_InferredWindow ==
  (/\ calc.op \in {"calculateSessionAttendance", "computeSessionPct"}
   /\ calc.sessionName = None
   /\ StoredSessions = <<>>
   /\ DayIds(book.dayDocs) # {})
  => /\ calc.out.start = MinDate(DayIds(book.dayDocs))
     /\ calc.out.end = MaxDate(DayIds(book.dayDocs))

\* C15: with no session and no day recorded, the window resolved is
\* [today, today]
C15_TodayWindow ==
  (/\ calc.op \in {"calculateSessionAttendance", "computeSessionPct"}
   /\ calc.sessionName = None
   /\ StoredSessions = <<>>
   /\ DayIds(book.dayDocs) = {})
  => /\ calc.out.start = book.today
     /\ calc.out.end = book.today

OpenEnded(s) == s.endDate = NoDate \/ DateLT(book.today, s.endDate)

\* C16: when the session resolved has no endDate or an endDate after today, the
\* window aggregated is [session.startDate, today], for the session named
\* (alexa.js, nothing selected), the selected one and the most recently
\* created one (part_002, nothing chosen)
C16_OpenEndClampedToToday ==
  /\ (/\ calc.op = "calculateSessionAttendance"
      /\ SelectedSession = NoSession
      /\ calc.sessionName # None
      /\ NamedSession # NoSession
      /\ OpenEnded(NamedSession)
      /\ DateLE(NamedSession.startDate, book.today))
     => /\ calc.out.start = NamedSession.startDate
        /\ calc.out.visited # <<>>
        /\ Last(calc.out.visited) = book.today
  /\ (/\ calc.op = "calculateSessionAttendance"
      /\ SelectedSession # NoSession
      /\ calc.sessionName = None
      /\ OpenEnded(SelectedSession)
      /\ DateLE(SelectedSession.startDate, book.today))
     => /\ calc.out.start = SelectedSession.startDate
        /\ calc.out.visited # <<>>
        /\ Last(calc.out.visited) = book.today
  /\ (/\ calc.op = "computeSessionPct"
      /\ StoredSessions # <<>>
      /\ OpenEnded(IF book.chosen # NoSession THEN SelectedSession ELSE NewestSession))
     => /\ calc.out.start = (IF book.chosen # NoSession THEN SelectedSession
                             ELSE NewestSession).startDate
        /\ calc.out.end = book.today

\* ------------------------------------------------------------ C17 .. C20
CountedDates == {calc.out.counted[i] : i \in 1..Len(calc.out.counted)}

\* C17: in calculateMonthlyAttendance and calculateSessionAttendance no date
\* after today increments totalWorkingDays or presentDays: the dates counted are
\* not after today, totalWorkingDays is their number and presentDays the number
\* of those recorded present
C17_FutureNeverCounted ==
  calc.op \in SessionOps \cup {"calculateMonthlyAttendance"}
  => /\ \A d \in CountedDates : ~DateLT(book.today, d)
     /\ calc.out.totalWorkingDays = Cardinality(CountedDates)
     /\ calc.out.presentDays =
          Cardinality({d \in CountedDates : RecordedPresent(book.userData, d)})

\* the month asked for runs beyond today, the leap day after today is recorded
\* present and is no day off, and days of the month have been counted
C17_Witness ==
  /\ calc.op = "calculateMonthlyAttendance"
  /\ calc.yearMonth = <<2024, 2>>
  /\ book.today = <<2024, 2, 15>>
  /\ RecordedPresent(book.userData, <<2024, 2, 29>>)
  /\ book.userData.weeklyDaysOff = {}
  /\ calc.out.totalWorkingDays > 0

MonthDates(ym) == {<<ym[1], ym[2], d>> : d \in 1..DaysInMonth(ym[1], ym[2])}
WorkingDates(ym) ==
  {d \in MonthDates(ym) :
     /\ ~DateLT(book.today, d)
     /\ ~IsNonWorkingDay(DayNumber(d), book.userData)
     /\ ~IsHoliday(book.userData, d)
     /\ ~IsNotEnrolled(book.userData, d)}
PresentDates(ym) == {d \in WorkingDates(ym) : RecordedPresent(book.userData, d)}

\* C18: calculateMonthlyAttendance returns 100 * P / T rounded half up, T the
\* days of the month not after today that are working days and neither holiday
\* nor not-enrolled, P those of them recorded present; 0 when T = 0; P <= T and
\* the result lies in 0..100
C18_MonthlyPercentage ==
  calc.op = "calculateMonthlyAttendance"
  => LET T == Cardinality(WorkingDates(calc.yearMonth))
         P == Cardinality(PresentDates(calc.yearMonth))
     IN /\ calc.out.totalWorkingDays = T
        /\ calc.out.presentDays = P
        /\ calc.out.percentage = (IF T = 0 THEN 0 ELSE (200 * P + T) \div (2 * T))
        /\ P <= T
        /\ calc.out.percentage \in 0..100

\* one day present of eight working days: 12.5, spoken as 13
C18_Witness ==
  /\ calc.op = "calculateMonthlyAttendance"
  /\ calc.out.totalWorkingDays = 8
  /\ calc.out.presentDays = 1
  /\ calc.out.percentage = 13

\* C19: a day whose stored status is holiday or not-enrolled is never counted
\* in the denominator of a percentage, by any of calculateMonthlyAttendance,
\* calculateSessionAttendance, computeMonthlyPct and computeSessionPct
C19_HolidayNeverInTotal ==
  \A d \in CountedDates :
    d \in DOMAIN book.dayDocs => book.dayDocs[d] \notin {"holiday", "not-enrolled"}

\* C20: the session percentage counts exactly the dates from start to
\* min(end, today): the walk of calculateSessionAttendance goes through each of
\* them once, in order, over the ends of months and years, and no recorded day
\* outside the window is counted by it or by computeSessionPct
C20_ExactlyTheWindow ==
  LET lim == IF DateLT(book.today, calc.out.end) THEN book.today ELSE calc.out.end
      n == DayNumber(lim) - DayNumber(calc.out.start) + 1
  IN /\ calc.op \in SessionOps \cup {"computeSessionPct", "SessionAttendanceIntent"}
        => \A d \in CountedDates : DateLE(calc.out.start, d) /\ DateLE(d, lim)
     /\ calc.op \in SessionOps
        => /\ Len(calc.out.visited) = (IF n > 0 THEN n ELSE 0)
           /\ \A i \in 1..Len(calc.out.visited) :
                DayNumber(calc.out.visited[i]) = DayNumber(calc.out.start) + i - 1


\* ------------------------------------------------------------ C21 .. C30
\* the stored status of the conversation's user on a day, in the attendance
\* document that the uid of the last turn resolves to
StoredStatus(d, uid, date) == GetDayStatus(d, uid, date).status

\* the last turn marked today present and the store holds it
MarkedPresentToday ==
  /\ turn.intent = "MarkPresentIntent" /\ turn.resp = "marked"
  /\ StoredStatus(db, turn.uid, today) = "present"

\* the last turn was the Yes that made today's record absent
ChangedToAbsent ==
  /\ turn.intent = "AMAZON.YesIntent" /\ turn.resp = "changed"
  /\ turn.status = "absent" /\ turn.existing = "present"
  /\ StoredStatus(db, turn.uid, today) = "absent"

\* C21: for a user with no prior data and no weekly day off, on Monday
\* 2024-06-03: marking present succeeds; marking absent after it asks for
\* confirmation with oldStatus = present and newStatus = absent; Yes makes the
\* record absent; and the monthly percentage of 2024-06 asked after it is 0
\* percent, 0 present days out of 1 total working day.
C21_Scenario ==
  [][/\ (turn = NoTurn /\ Handled({"MarkPresentIntent"}))
        => /\ turn'.resp = "marked"
           /\ StoredStatus(db', turn'.uid, today) = "present"
     /\ (MarkedPresentToday /\ Handled({"MarkAbsentIntent"}))
        => /\ turn'.resp = "confirm"
           /\ attrs'.pendingStatusChange =
                PendingStatusChange(today, "absent", "present", None)
     /\ (/\ attrs.pendingStatusChange = PendingStatusChange(today, "absent", "present", None)
         /\ Handled({"AMAZON.YesIntent"}))
        => StoredStatus(db', turn'.uid, today) = "absent"
     /\ (ChangedToAbsent /\ Handled({"MonthlyAttendanceIntent"}))
        => /\ calc'.out.percentage = 0
           /\ calc'.out.presentDays = 0
           /\ calc'.out.totalWorkingDays = 1]_vars


\* the session list of the user as stored, its flagged positions, and call c
\* passing from its read to its pending write as operation op
SessionList == GetUserData(db, AlexaId).sessions
SelectedIn(sessions) == {i \in 1..Len(sessions) : sessions[i].isSelected}
ReadBy(c, op) == svc[c].pc = "idle" /\ svc'[c].pc = "write" /\ svc'[c].op = op

\* the code saveSession generates for a name, and the array it computes from the
\* stored list
CodeFor(name, suffix) == GenerateSessionCode(name, IF rev = "alexa" THEN suffix ELSE clock)
Saved(name, suffix, setAsPreset) ==
  IF rev = "alexa"
  THEN SaveSessionAlexa(SessionList, name, CodeFor(name, suffix), clock, setAsPreset)
  ELSE SaveSessionPreset(SessionList, name, CodeFor(name, suffix), clock, setAsPreset)

\* C22: the array that saveSession(uid, name, start, end, setAsPreset = true)
\* stores holds the newly saved session flagged selected and no other session
\* flagged, whatever was selected before the call.
C22_PresetSaveSelectsOnlyNew ==
  [][\A c \in Calls, name \in SessionNames, suffix \in Suffixes :
       (ReadBy(c, "saveSession") /\ svc'[c].sessions = Saved(name, suffix, TRUE))
       => LET new == SessionData(name, CodeFor(name, suffix), clock, TRUE)
              written == svc'[c].sessions
          IN /\ \E i \in 1..Len(written) : written[i] = new
             /\ \A i \in SelectedIn(written) : written[i] = new
             /\ Cardinality(SelectedIn(written)) = 1]_vars


\* the stored sessions whose code is the identifier, and those whose name is
\* the identifier ignoring case
CodeEquals(ident) == {i \in 1..Len(SessionList) : SessionList[i].code = ident}
NameEquals(ident) ==
  {i \in 1..Len(SessionList) : ToLowerCase(SessionList[i].name) = ToLowerCase(ident)}

\* C23: the array setAlexaPresetSession(uid, identifier) stores flags a session
\* whose code equals the identifier whenever the stored list has one, and only
\* otherwise a session whose name equals the identifier ignoring case, at any
\* position of the two in the stored list.
C23_CodeBeforeName ==
  [][\A c \in Calls, ident \in Identifiers :
       (/\ ReadBy(c, "setAlexaPresetSession")
        /\ FindSession(SessionList, ident) # 0
        /\ svc'[c].sessions =
             SetAlexaPresetSessionUpdate(SessionList, FindSession(SessionList, ident)))
       => LET chosen == SelectedIn(svc'[c].sessions)
          IN /\ chosen # {}
             /\ chosen \subseteq (IF CodeEquals(ident) # {} THEN CodeEquals(ident)
                                  ELSE NameEquals(ident))]_vars


UniqueNames(sessions) ==
  \A i, j \in 1..Len(sessions) :
    i # j => ToLowerCase(sessions[i].name) # ToLowerCase(sessions[j].name)

\* C24: after any sequence of saveSession calls no two stored sessions have the
\* same name ignoring case, and a saveSession of a name that is already stored
\* writes an array that is not longer than the stored one.
C24_OneSessionPerName ==
  [][/\ UniqueNames(SessionList')
     /\ \A c \in Calls, name \in SessionNames, suffix \in Suffixes, preset \in BOOLEAN :
          (/\ ReadBy(c, "saveSession")
           /\ svc'[c].sessions = Saved(name, suffix, preset)
           /\ NameEquals(name) # {})
          => /\ Len(svc'[c].sessions) <= Len(SessionList)
             /\ UniqueNames(svc'[c].sessions)]_vars


\* the array saveSession holds before it sorts: the stored sessions in their
\* order, the saved one in the place of the entry it replaces or at the end
Placed(name, suffix, preset) ==
  LET k == FindIndex(SessionList, name, CodeFor(name, suffix))
      sessionData == SessionData(name, CodeFor(name, suffix), clock, preset)
  IN IF k # 0 THEN [SessionList EXCEPT ![k] = sessionData]
     ELSE Append(SessionList, sessionData)

SessionKey(s) == <<s.name, s.code, s.createdAt>>
Descending(sessions) ==
  \A i, j \in 1..Len(sessions) : i < j => sessions[i].createdAt >= sessions[j].createdAt
SameOrder(before, after) ==
  /\ Len(after) = Len(before)
  /\ \A i \in 1..Len(before) : SessionKey(after[i]) = SessionKey(before[i])

\* the sessions of a list that were created at an instant, in their order
CreatedAt(sessions, at) ==
  SelectSeq([i \in 1..Len(sessions) |-> SessionKey(sessions[i])], LAMBDA k : k[3] = at)

\* after holds the sessions of before, and those with equal createdAt in the
\* order they have in before
TiesInOrder(before, after) ==
  /\ Len(after) = Len(before)
  /\ \A i \in 1..Len(before) :
       CreatedAt(after, before[i].createdAt) = CreatedAt(before, before[i].createdAt)

\* C25: the stored session list is always ordered newest createdAt first;
\* setAlexaPresetSession and clearAlexaPresetSession store the sessions in the
\* order they read them; and saveSession stores sessions of equal createdAt in
\* the order of their insertion, the saved session after the sessions it ties
\* with when it is new and in the place of the session it replaces otherwise.
C25_NewestFirst ==
  [][/\ db' # db => Descending(SessionList')
     /\ \A c \in Calls :
          /\ (ReadBy(c, "setAlexaPresetSession") \/ ReadBy(c, "clearAlexaPresetSession"))
             => SameOrder(SessionList, svc'[c].sessions)
          /\ ReadBy(c, "saveSession")
             => /\ Descending(svc'[c].sessions)
                /\ \A name \in SessionNames, suffix \in Suffixes, preset \in BOOLEAN :
                     svc'[c].sessions = Saved(name, suffix, preset)
                     => TiesInOrder(Placed(name, suffix, preset), svc'[c].sessions)]_vars

\* two sessions saved at the same instant are stored in the order they were
\* saved, and a later setAlexaPresetSession has kept that order
C25_Witness ==
  /\ made = 3 /\ \A c \in Calls : svc[c].pc = "idle"
  /\ Len(SessionList) = 2
  /\ SessionList[1].createdAt = SessionList[2].createdAt
  /\ SessionList[1].name = "Summer 2024" /\ ~SessionList[1].isSelected
  /\ SessionList[2].name = "summer-2024" /\ SessionList[2].isSelected


\* the weekday of a calendar date by the month-offset rule, 0 = Sunday
MonthOffsets == <<0, 3, 2, 5, 0, 3, 5, 1, 4, 6, 2, 4>>
DayOfWeek(date) ==
  LET y == IF date[2] < 3 THEN date[1] - 1 ELSE date[1]
  IN (y + y \div 4 - y \div 100 + y \div 400 + MonthOffsets[date[2]] + date[3]) % 7

\* Sunday, or a weekday the user has configured as off
DayOff(date) == DayOfWeek(date) = 0 \/ DayOfWeek(date) \in book.userData.weeklyDaysOff

VisitedDates == {calc.out.visited[i] : i \in 1..Len(calc.out.visited)}
DecidedDates == MarkedDates \cup VisitedDates \cup ({book.today} \ {NoDate})

\* C26: isNonWorkingDay (and isDayOffToday on the weekday of the date) is true
\* exactly when the date is a Sunday or its weekday is in weeklyDaysOff; the
\* decision is the same under every stored status of the date, and no such
\* date is counted by calculateMonthlyAttendance.
C26_WorkingDayDecision ==
  /\ \A d \in DecidedDates :
       /\ IsNonWorkingDay(DayNumber(d), book.userData) = DayOff(d)
       /\ IsDayOffToday(d, IF Weekday(DayNumber(d)) = 0 THEN 7 ELSE Weekday(DayNumber(d)),
                        [weeklyDaysOff |-> book.userData.weeklyDaysOff]) = DayOff(d)
  /\ \A d \in MarkedDates, status \in DayStatuses :
       IsNonWorkingDay(DayNumber(d),
                       UserDataOf([book.dayDocs EXCEPT ![d] = status],
                                  book.userData.sessions, book.userData.weeklyDaysOff))
         = DayOff(d)
  /\ calc.op = "calculateMonthlyAttendance" => \A d \in CountedDates : ~DayOff(d)

\* Thursday is a weekly day off: January 2024 was asked for, its first Sunday
\* and its first Thursday were gone through and not counted, the Wednesday
\* between them was counted, and Thursday 2024-02-29 is off although it is
\* recorded present
C26_Witness ==
  /\ calc.op = "calculateMonthlyAttendance" /\ calc.yearMonth = <<2024, 1>>
  /\ book.userData.weeklyDaysOff = {4}
  /\ {<<2024, 1, 4>>, <<2024, 1, 7>>} \subseteq VisitedDates \ CountedDates
  /\ <<2024, 1, 3>> \in CountedDates
  /\ RecordedPresent(book.userData, <<2024, 2, 29>>)
  /\ IsNonWorkingDay(DayNumber(<<2024, 2, 29>>), book.userData)


\* the places of an attendance document that give a date a status
HolidayEntries(doc, date) == {i \in 1..Len(doc.holidays) : doc.holidays[i].date = date}
NotEnrolledEntries(doc, date) == {i \in 1..Len(doc.notEnrolled) : doc.notEnrolled[i] = date}
StatusPlaces(doc, date) ==
  (IF doc.records[date] # None THEN 1 ELSE 0)
  + Cardinality(HolidayEntries(doc, date)) + Cardinality(NotEnrolledEntries(doc, date))

\* C27: in every attendance document a date is at most one of a key of records,
\* an entry of holidays and an entry of notEnrolled, and it is in holidays and
\* in notEnrolled at most once.
C27_OneStatusPerDate ==
  \A key \in Keys, date \in Dates : StatusPlaces(db.att[key], date) <= 1


\* a 'YYYY-MM-DD' text that names a day of the calendar
IsCalendarDate(date) ==
  /\ date[2] \in 1..12
  /\ date[3] \in 1..DaysInMonth(date[1], date[2])

\* C28: a date that is no YYYY-MM-DD calendar date, given as the start or the
\* end date of a session, is rejected with InvalidDate: the turn that received
\* it answers with that rejection, and no stored session carries such a date.
C28_NoMalformedDateStored ==
  /\ \A key \in Keys : \A i \in 1..Len(db.att[key].sessions) :
       /\ IsCalendarDate(db.att[key].sessions[i].startDate)
       /\ IsCalendarDate(db.att[key].sessions[i].endDate)
  /\ (attrs.pendingStartDate # NoDate /\ ~IsCalendarDate(attrs.pendingStartDate))
     => turn.resp = "InvalidDate"


\* the result that names no cause
Unknown == [ok |-> FALSE, reason |-> "unknown", existing |-> None]

\* C29: when the store fails during a setStatusIfEmpty call, no day document is
\* created or changed, the call ends without another attempt, and its result
\* is neither ok nor already_set and tells the caller that the storage was
\* unavailable, which a result with reason 'unknown' does not.
C29_StoreFailureIdentified ==
  [][\A c \in Calls :
       (~txFaulted[c] /\ txFaulted'[c])
       => /\ days' = days
          /\ txpc'[c] = "done" /\ txAttempt'[c] = txAttempt[c]
          /\ txRes'[c] # Ok
          /\ \A status \in MarkStatuses : txRes'[c] # AlreadySet(status)
          /\ txRes'[c] # Unknown]_vars


\* the attendance document that the reads and writes of a turn go to
AttendanceKeyOf(d, t) == GetAttendanceKey(d, t.uid)

\* C30: the attendance key that getUserKey and getAttendanceKey resolve to for
\* the Alexa user is the same on every request: a turn that resolves the user
\* works on the attendance document of the last turn that resolved the user,
\* whether the profile lookup succeeds or fails and with or without a token.
C30_OneAttendanceDocument ==
  [][(turn.uid # None /\ turn'.uid # None)
     => AttendanceKeyOf(db', turn') = AttendanceKeyOf(db, turn)]_vars


\* ------------------------------------------------------------ C31 .. C40
\* call c of setDayStatus completes, and no other call ran while it did
Completes(c) == req[c].pc = "write" /\ req'[c].pc = "done"

\* what getDayStatus has to report after setDayStatus(uid, date, status, extra)
Reported(status, holidayName) ==
  [status |-> status,
   name |-> IF status # "holiday" THEN None
            ELSE IF holidayName # None THEN holidayName ELSE "Holiday"]

\* C31: for every prior status of a day (none, present, absent, holiday,
\* not-enrolled) and every new status s, when setDayStatus(uid, date, s) has
\* completed with no other call in between, getDayStatus(uid, date) reports s,
\* with the name given when s is holiday.
C31_SetThenGet ==
  [][\A c \in Calls :
       (Completes(c) /\ req[c].alone)
       => GetDayStatus(db', req[c].uid, req[c].date)
            = Reported(req[c].status, req[c].holidayName)]_vars


\* C32: a Yes turn consumes the pending change in every outcome: when a Yes
\* has been handled with a pending change in the session attributes, also
\* when the overwrite failed with a storage error, the session attributes the
\* turn leaves hold no pending change, so that no later Yes can apply it again.
C32_YesConsumesPending ==
  [][(attrs.pendingStatusChange # NoPending /\ Handled({"AMAZON.YesIntent"}))
     => attrs'.pendingStatusChange = NoPending]_vars

\* the sessions of the Google user as stored, and those a name or a code picks
UserSessions(d) == GetUserData(d, GoogleUid).sessions
NamedLike(d, ident) ==
  {i \in 1..Len(UserSessions(d)) :
     ToLowerCase(UserSessions(d)[i].name) = ToLowerCase(ident)}
CodedAs(d, ident) == {i \in 1..Len(UserSessions(d)) : UserSessions(d)[i].code = ident}

\* C33: when more than one session of the uid has the requested name ignoring
\* case and none has it as its code, a select request by that name changes no
\* selection flag, asks the caller to give the code and keeps the session
\* open, by SelectSessionIntent and by SetAlexaPresetIntent alike.
C33_AmbiguousNameAsks ==
  [][\A ident \in SaidSessions :
       (/\ Handled({"SelectSessionIntent", "SetAlexaPresetIntent"})
        /\ turn'.status = ident
        /\ Cardinality(NamedLike(db, ident)) > 1
        /\ CodedAs(db, ident) = {})
       => /\ UserSessions(db') = UserSessions(db)
          /\ turn'.resp = "disambiguate"
          /\ sess' = "open"]_vars

\* C34: a setAlexaPresetSession whose identifier is neither the code nor,
\* ignoring case, the name of a session of the uid returns a not-found result
\* and writes nothing: the stored session list and the selection in it are as
\* they were, in both revisions.
C34_NotFoundChangesNothing ==
  [][\A ident \in SaidSessions :
       (/\ Handled({"setAlexaPresetSession"})
        /\ turn'.status = ident
        /\ NamedLike(db, ident) = {} /\ CodedAs(db, ident) = {})
       => /\ turn'.resp \in {"Session not found", "No sessions found"}
          /\ UserSessions(db') = UserSessions(db)
          /\ db' = db]_vars

\* part_002 was asked for 'autumn' among two sessions of which one is selected:
\* it has answered not found, and the selected session is still selected
C34_Witness ==
  /\ rev = "part_002"
  /\ turn.intent = "setAlexaPresetSession" /\ turn.status = "autumn"
  /\ turn.resp = "Session not found"
  /\ Len(UserSessions(db)) = 2
  /\ UserSessions(db)[2].isSelected /\ ~UserSessions(db)[1].isSelected

DistinctCodes(sessions) ==
  \A i, j \in 1..Len(sessions) : i # j => sessions[i].code # sessions[j].code

\* C35: after any sequence of saveSession calls of alexa.js for a uid, the
\* codes of the stored sessions are pairwise distinct, also when the suffix
\* that generateSessionCode draws repeats; and each code is the lower-cased
\* name without its non-alphanumeric characters, cut to 8 characters, followed
\* by the suffix drawn.
C35_CodesDistinct ==
  rev = "alexa"
  => /\ DistinctCodes(SessionList)
     /\ \A i \in 1..Len(SessionList) :
          /\ SessionList[i].code[1] = CodeBase(SessionList[i].name)
          /\ SessionList[i].code[2] \in Suffixes

\* call c of setDayStatus has returned, and the store reports what it set
TookEffect(c) ==
  GetDayStatus(db, req[c].uid, req[c].date) = Reported(req[c].status, req[c].holidayName)

\* C36: two setDayStatus calls of one uid that overlap, for two different
\* dates that had no status, both take effect: when both have returned, each
\* date has the status its call set, the whole records, holidays and
\* notEnrolled containers written from a stale read notwithstanding.
C36_BothDatesSet ==
  \A a, b \in Calls :
    (/\ a # b
     /\ req[a].pc = "done" /\ req[b].pc = "done"
     /\ ~req[a].alone /\ ~req[b].alone
     /\ req[a].date # req[b].date
     /\ req[a].existing = None /\ req[b].existing = None)
    => TookEffect(a) /\ TookEffect(b)

\* call c of saveSession passes its 'await updateUserData'
SaveWritten(c) ==
  svc[c].pc = "write" /\ svc[c].op = "saveSession" /\ svc'[c].pc = "idle"

\* the session is in the list, or the list holds the session that replaced it
\* (the one with its name ignoring case, or with its code)
KeptIn(session, sessions) ==
  \E j \in 1..Len(sessions) :
    \/ ToLowerCase(sessions[j].name) = ToLowerCase(session.name)
    \/ sessions[j].code = session.code

\* C37: of two saveSession calls of alexa.js for one uid, with different
\* session names, that overlap, neither loses the other's session: the write
\* of a saveSession call leaves every session that was stored before it in the
\* stored list, but for the session that the saved one replaces.
C37_NoSessionLost ==
  [][\A c \in Calls :
       (rev = "alexa" /\ SaveWritten(c))
       => \A i \in 1..Len(SessionList) : KeptIn(SessionList[i], SessionList')]_vars

\* the names of the sessions of a list that are flagged selected
SelectedNames(sessions) == {ToLowerCase(sessions[i].name) : i \in SelectedIn(sessions)}

\* C38: saveSession with setAsPreset = false does not change which session is
\* selected: in the array it computes from the stored list the session that is
\* selected in the stored list is the selected one, also when the saved name
\* replaces a stored session.
C38_PlainSaveKeepsSelection ==
  [][\A c \in Calls, name \in SessionNames, suffix \in Suffixes :
       (ReadBy(c, "saveSession") /\ svc'[c].sessions = Saved(name, suffix, FALSE))
       => SelectedNames(svc'[c].sessions) = SelectedNames(SessionList)]_vars

\* a request was handled that carried no access token: any request but a mark
\* request that was not answered with the account-linking card
WithoutToken ==
  /\ turn'.seq # turn.seq
  /\ turn'.intent \in {"MarkPresentIntent", "MarkAbsentIntent"} => turn'.resp = "link"

\* C39: a request that carries no access token writes nothing to the
\* credentials store or to the attendance store, whichever handler of alexa.js
\* serves it, AMAZON.YesIntent and DateIntent included.
C39_NoTokenNoWrite ==
  [][WithoutToken => db' = db]_vars

\* the steps of the dialogue that wait for a date hold what was said before them
StepsHoldTheirValues ==
  /\ attrs.sessionCreationStep \in {"startDate", "endDate"} =>
       attrs.pendingSessionName # None
  /\ attrs.sessionCreationStep = "endDate" => attrs.pendingStartDate # NoDate

\* a request was handled that called saveSession: DateIntentHandler answered
\* that the session was created, or the uid has a stored session, or a selected
\* one, that it did not have before
SaveSessionCalled ==
  /\ turn'.seq # turn.seq
  /\ \/ turn'.resp = "created"
     \/ /\ turn'.uid # None
        /\ \E i \in 1..Len(GetUserData(db', turn'.uid).sessions) :
             \A j \in 1..Len(GetUserData(db, turn'.uid).sessions) :
               GetUserData(db', turn'.uid).sessions[i] #
                 GetUserData(db, turn'.uid).sessions[j]

\* the session the request stored has the pending name and start date, and the
\* date said as its end date
StoredAsSaid ==
  \E i \in 1..Len(GetUserData(db', turn'.uid).sessions) :
    LET session == GetUserData(db', turn'.uid).sessions[i]
    IN /\ session.name = attrs.pendingSessionName
       /\ session.startDate = attrs.pendingStartDate
       /\ session.endDate \in DateValues

====
